---- MODULE Spec2Model ----
(***************************************************************************)
(* Statistics and reporting engine of the personal task tracker            *)
(* (controllers/stats_controller.go) together with the store it reads and  *)
(* the requests of the task, category and project controllers that write   *)
(* that store.                                                             *)
(*                                                                         *)
(* Time.  A time.Time is the pair <<day, ms>>: day is the number of the    *)
(* calendar day counted from 1970-01-01 (day 0, a Thursday) and ms the     *)
(* millisecond inside that day; a nil *time.Time is the empty tuple.  All  *)
(* times are wall-clock times of the one zone the server and the database  *)
(* session run in.                                                         *)
(*                                                                         *)
(* Strings that the code parses or builds (query parameters, date labels)  *)
(* are sequences of one-character strings, so that parsing and formatting  *)
(* are computed character by character.                                    *)
(*                                                                         *)
(* float64 rates are exact rationals [num, den] with den > 0.              *)
(***************************************************************************)
EXTENDS Integers, Sequences, FiniteSets, TLC

VARIABLES now, ticks, dbUp, outages, tasks, categories, projects, req, resp,
          writers, writes

vars == <<now, ticks, dbUp, outages, tasks, categories, projects, req, resp,
          writers, writes>>

(***************************************************************************)
(* Bounds of the model.                                                    *)
(***************************************************************************)
\* how many times the wall clock is observed to advance in one behaviour
MaxTicks == 1
\* how many task rows the store holds
MaxTasks == 2
\* how many times the store becomes unreachable in one behaviour
MaxOutages == 1
\* how many write requests are accepted in one behaviour
MaxWrites == 2

(***************************************************************************)
(* time: durations and the proleptic Gregorian calendar of package time.   *)
(***************************************************************************)
Second == 1000
Hour == 60 * 60 * Second
MsPerDay == 24 * Hour

NilTime == <<>>
IsNil(t) == t = <<>>

Time(day, ms) == <<day, ms>>
DayOf(t) == t[1]
MsOf(t) == t[2]

\* t.Before(u), t.After(u), and the SQL comparisons on DATETIME columns
TimeLess(t, u) == \/ t[1] < u[1]
                  \/ t[1] = u[1] /\ t[2] < u[2]
TimeLeq(t, u) == t = u \/ TimeLess(t, u)

\* days since 1970-01-01 of the civil date y-m-d (1 <= m <= 12; d may lie
\* outside the month, as time.Date allows)
DaysFromCivil(y, m, d) ==
    LET yy  == IF m <= 2 THEN y - 1 ELSE y
        era == yy \div 400
        yoe == yy - era * 400
        mp  == IF m > 2 THEN m - 3 ELSE m + 9
        doy == (153 * mp + 2) \div 5 + d - 1
        doe == yoe * 365 + yoe \div 4 - yoe \div 100 + doy
    IN  era * 146097 + doe - 719468

\* the civil date [y, m, d] of a day number
CivilFromDays(z) ==
    LET zz  == z + 719468
        era == zz \div 146097
        doe == zz - era * 146097
        yoe == (doe - doe \div 1460 + doe \div 36524 - doe \div 146096) \div 365
        doy == doe - (365 * yoe + yoe \div 4 - yoe \div 100)
        mp  == (5 * doy + 2) \div 153
        d   == doy - (153 * mp + 2) \div 5 + 1
        m   == IF mp < 10 THEN mp + 3 ELSE mp - 9
        y   == yoe + era * 400
    IN  [y |-> IF m <= 2 THEN y + 1 ELSE y, m |-> m, d |-> d]

\* time.Date(year, month, day, 0, 0, 0, 0, loc) plus ms milliseconds:
\* month, day and ms outside their ranges are normalised
Date(y, mo, d, ms) ==
    LET m0  == mo - 1
        yn  == y + m0 \div 12
        mn  == (m0 % 12) + 1
        day == DaysFromCivil(yn, mn, 1) + d - 1
    IN  Time(day + ms \div MsPerDay, ms % MsPerDay)

Year(t) == CivilFromDays(DayOf(t)).y
Month(t) == CivilFromDays(DayOf(t)).m
Day(t) == CivilFromDays(DayOf(t)).d

\* t.Weekday(): Sunday = 0 ... Saturday = 6
Weekday(t) == (DayOf(t) + 4) % 7

\* t.Add(d), d in milliseconds
Add(t, d) == LET s == MsOf(t) + d
             IN  Time(DayOf(t) + s \div MsPerDay, s % MsPerDay)

\* t.AddDate(years, months, days)
AddDate(t, years, months, days) ==
    LET c == CivilFromDays(DayOf(t))
    IN  Date(c.y + years, c.m + months, c.d + days, MsOf(t))

(***************************************************************************)
(* Characters, formatting and parsing.                                     *)
(***************************************************************************)
Digits == <<"0", "1", "2", "3", "4", "5", "6", "7", "8", "9">>
DigitChar(n) == Digits[n + 1]
IsDigit(c) == \E k \in 1..10 : Digits[k] = c
DigitVal(c) == (CHOOSE k \in 1..10 : Digits[k] = c) - 1

Pad2(n) == <<DigitChar((n \div 10) % 10), DigitChar(n % 10)>>
Pad4(n) == <<DigitChar((n \div 1000) % 10), DigitChar((n \div 100) % 10)>>
           \o Pad2(n % 100)

\* t.Format("2006-01-02")
FormatDate(t) ==
    LET c == CivilFromDays(DayOf(t))
    IN  Pad4(c.y) \o <<"-">> \o Pad2(c.m) \o <<"-">> \o Pad2(c.d)

\* t.Format("2006-01")
FormatMonth(t) ==
    LET c == CivilFromDays(DayOf(t))
    IN  Pad4(c.y) \o <<"-">> \o Pad2(c.m)

\* the value of a sequence of decimal digits
RECURSIVE DigitsValue(_)
DigitsValue(s) ==
    IF s = <<>> THEN 0
    ELSE 10 * DigitsValue(SubSeq(s, 1, Len(s) - 1)) + DigitVal(s[Len(s)])

AllDigits(s) == \A k \in 1..Len(s) : IsDigit(s[k])

StripZeros(s) ==
    LET nz == {k \in 1..Len(s) : s[k] # "0"}
    IN  IF nz = {} THEN <<>>
        ELSE SubSeq(s, CHOOSE k \in nz : \A j \in nz : k <= j, Len(s))

\* strconv.Atoi: an optional sign, then one or more decimal digits; a value
\* that does not fit the machine int is a range error.  The value is exact
\* up to 9 significant digits; a longer one that still fits is reported as
\* 10^9 (the callers only compare it with 12 and 30), and one of 19 or more
\* significant digits as the range error.
Atoi(s) ==
    LET signed == Len(s) > 0 /\ s[1] \in {"+", "-"}
        body   == IF signed THEN SubSeq(s, 2, Len(s)) ELSE s
        sig    == StripZeros(body)
        mag    == IF Len(sig) > 9 THEN 1000000000 ELSE DigitsValue(sig)
    IN  IF body = <<>> \/ ~AllDigits(body) \/ Len(sig) >= 19
        THEN [err |-> TRUE, v |-> 0]
        ELSE [err |-> FALSE,
              v   |-> IF signed /\ s[1] = "-" THEN 0 - mag ELSE mag]

\* utils.SafeStringConvert applied to a string: the string itself
SafeStringConvert(s) == s

\* utils.SafeIntConvert: "" converts to 0 without error
SafeIntConvert(s) == IF s = <<>> THEN [err |-> FALSE, v |-> 0] ELSE Atoi(s)

\* ParseMonth without the range check of the month number
ParseMonth_AnyMonthNumber(s) ==
    LET bad == [err |-> TRUE, t |-> NilTime]
    IN  IF Len(s) # 7 \/ ~AllDigits(SubSeq(s, 1, 4)) \/ s[5] # "-"
           \/ ~IsDigit(s[6]) \/ ~IsDigit(s[7])
        THEN bad
        ELSE [err |-> FALSE,
              t   |-> Date(DigitsValue(SubSeq(s, 1, 4)), DigitsValue(SubSeq(s, 6, 7)), 1, 0)]

\* time.Parse("2006-01", s): four digits, "-", two digits, nothing else; the
\* month must lie in 1..12.  The result is the first instant of that month.
ParseMonth(s) ==
    LET bad == [err |-> TRUE, t |-> NilTime]
    IN  IF Len(s) < 4 \/ ~AllDigits(SubSeq(s, 1, 4)) THEN bad
        ELSE IF Len(s) < 5 \/ s[5] # "-" THEN bad
        ELSE IF Len(s) < 7 \/ ~IsDigit(s[6]) \/ ~IsDigit(s[7]) THEN bad
        ELSE LET y == DigitsValue(SubSeq(s, 1, 4))
                 m == DigitsValue(SubSeq(s, 6, 7))
             IN  IF m <= 0 \/ 12 < m THEN bad
                 ELSE IF Len(s) > 7 THEN bad
                 ELSE [err |-> FALSE, t |-> Date(y, m, 1, 0)]

\* gin.Context.DefaultQuery: the default when the key is absent from the
\* query string.  A query parameter is [has, val].
DefaultQuery(param, default) == IF param.has THEN param.val ELSE default

Absent == [has |-> FALSE, val |-> <<>>]
Given(s) == [has |-> TRUE, val |-> s]

(***************************************************************************)
(* float64 values, kept as exact rationals.                                *)
(***************************************************************************)
Rat(n, d) == [num |-> n, den |-> d]
Float(n) == Rat(n, 1)
RatEq(a, b) == a.num * b.den = b.num * a.den
RatLeq(a, b) == a.num * b.den <= b.num * a.den

(***************************************************************************)
(* The store: the rows of tables tasks, categories and projects.  A table  *)
(* is a function from the ids of its rows to the rows; a soft-deleted row  *)
(* (deleted_at set) stays in the table.                                    *)
(***************************************************************************)
Users == {1, 2}
Statuses == {"pending", "in_progress", "completed"}
Priorities == <<"low", "medium", "high", "urgent">>

\* a row of table tasks; a nil category or project id is 0
TaskRow(u, status, priority, created, completed, due, cid, pid, deleted) ==
    [user_id |-> u, status |-> status, priority |-> priority,
     created_at |-> created, completed_at |-> completed, due_date |-> due,
     category_id |-> cid, project_id |-> pid, deleted |-> deleted]

\* the scope gorm adds to every query on a model with a DeletedAt field
NotDeleted(row) == ~row.deleted

\* TasksOf without the user_id condition
TasksOf_AnyOwner(u) == {id \in DOMAIN tasks : NotDeleted(tasks[id])}

\* db.Model(&models.Task{}).Where("user_id = ?", u): the ids it selects
TasksOf(u) == {id \in DOMAIN tasks : NotDeleted(tasks[id]) /\ tasks[id].user_id = u}
ProjectsOf(u) ==
    {id \in DOMAIN projects : NotDeleted(projects[id]) /\ projects[id].user_id = u}
CategoriesOf(u) ==
    {id \in DOMAIN categories : NotDeleted(categories[id]) /\ categories[id].user_id = u}

\* ...Count(&n), the error ignored: n keeps its zero value when the query fails
Count(S) == IF dbUp THEN Cardinality(S) ELSE 0

\* ...Find(&rows), the error ignored: the rows in primary-key order, none
\* when the query fails
RECURSIVE Ascending(_)
Ascending(S) ==
    IF S = {} THEN <<>>
    ELSE LET m == CHOOSE x \in S : \A y \in S : x <= y
         IN  <<m>> \o Ascending(S \ {m})
Find(S) == IF dbUp THEN Ascending(S) ELSE <<>>

\* SQL DATE(col) = ? with ? a "2006-01-02" string; NULL never matches
DateIs(t, dateStr) == ~IsNil(t) /\ FormatDate(t) = dateStr

\* SQL col >= ? AND col <= ?; NULL never matches
Between(t, lo, hi) == ~IsNil(t) /\ TimeLeq(lo, t) /\ TimeLeq(t, hi)

(***************************************************************************)
(* Requests and responses.  One report request is in flight at a time; its *)
(* handler runs step by step (one step per loop iteration of the code), so *)
(* the wall clock and the availability of the store can change between two *)
(* steps.  req is the handler's frame: pc its position, n and i the loop   *)
(* bound and counter, acc the slice built so far, part the values computed *)
(* before the loop (a response keeps them as locals, next to the data it   *)
(* serialises); nq counts the store queries issued and nfail those     *)
(* that failed; t0 is the wall clock when the request arrived and w0 the   *)
(* write requests at that time: the number of those that had arrived and   *)
(* the connections of those in flight.                                     *)
(***************************************************************************)
Idle == [kind |-> "idle", user |-> 0, param |-> Absent, pc |-> "idle", n |-> 0,
         i |-> 0, acc |-> <<>>, part |-> <<>>, nq |-> 0, nfail |-> 0,
         t0 |-> NilTime, w0 |-> [arrived |-> 0, busy |-> {}]]

NoResp == [kind |-> "none", user |-> 0, param |-> Absent, code |-> 0,
           message |-> "", data |-> <<>>, error |-> FALSE, timestamp |-> NilTime,
           locals |-> <<>>, nq |-> 0, nfail |-> 0, t0 |-> NilTime]

StatusOK == 200
StatusBadRequest == 400

\* the frame of a request of the given kind that has just arrived
Frame(kind, u, param) ==
    [Idle EXCEPT !.kind = kind, !.user = u, !.param = param, !.t0 = now,
                 !.w0 = [arrived |-> writes,
                         busy |-> {c \in DOMAIN writers : writers[c].kind # "idle"}]]

\* the frame after k more store queries were issued
Queried(r, k) ==
    [r EXCEPT !.nq = @ + k, !.nfail = @ + (IF dbUp THEN 0 ELSE k)]

\* utils.SuccessResponse(c, data)
SuccessResponse(r, data) ==
    [kind |-> r.kind, user |-> r.user, param |-> r.param, code |-> StatusOK,
     message |-> "success", data |-> data, error |-> FALSE, timestamp |-> now,
     locals |-> r.part, nq |-> r.nq, nfail |-> r.nfail, t0 |-> r.t0]

\* utils.ErrorResponse(c, code, message, err): no data
ErrorResponse(r, code, message) ==
    [kind |-> r.kind, user |-> r.user, param |-> r.param, code |-> code,
     message |-> message, data |-> <<>>, error |-> TRUE, timestamp |-> now,
     locals |-> r.part, nq |-> r.nq, nfail |-> r.nfail, t0 |-> r.t0]

(***************************************************************************)
(* The rate computations, one definition per place of the code.            *)
(***************************************************************************)
\* completionRate of GetProductivityStats
CompletionRate(completedTasks, totalTasks) ==
    IF totalTasks > 0 THEN Rat(completedTasks * 100, totalTasks) ELSE Float(0)

\* rate of one priority
PriorityRate(completed, total) ==
    IF total > 0 THEN Rat(completed * 100, total) ELSE Float(0)

\* Efficiency without the branch for completions on a day without creations
Efficiency_GeneralRuleOnly(created, completed) ==
    IF created > 0 THEN Rat(completed * 100, created) ELSE Float(0)

\* efficiency of one day of the 7-day trend
Efficiency(created, completed) ==
    IF created > 0 THEN Rat(completed * 100, created)
    ELSE IF completed > 0 THEN Float(100)
    ELSE Float(0)

\* CategoryRate that rates a category without tasks as fully completed
CategoryRate_FullWhenEmpty(completed, total) ==
    IF total > 0 THEN Rat(completed * 100, total) ELSE Float(100)

\* rate of one category
CategoryRate(completed, total) ==
    IF total > 0 THEN Rat(completed * 100, total) ELSE Float(0)

\* completion_rate of today's tasks
TodayRate(todayCompleted, todayTasks) ==
    IF todayTasks > 0 THEN Rat(todayCompleted * 100, todayTasks) ELSE Float(0)

\* progress of one project
ProjectProgress(completed, total) ==
    IF total > 0 THEN Rat(completed * 100, total) ELSE Float(0)

\* completion_rate of the monthly summary
MonthlyRate(tasksCompleted, tasksCreated) ==
    IF tasksCreated > 0 THEN Rat(tasksCompleted * 100, tasksCreated) ELSE Float(0)

(***************************************************************************)
(* GetOverview                                                             *)
(***************************************************************************)
Overview(u) ==
    [total_tasks       |-> Count(TasksOf(u)),
     pending_tasks     |-> Count({id \in TasksOf(u) : tasks[id].status = "pending"}),
     in_progress_tasks |-> Count({id \in TasksOf(u) : tasks[id].status = "in_progress"}),
     completed_tasks   |-> Count({id \in TasksOf(u) : tasks[id].status = "completed"}),
     total_projects    |-> Count(ProjectsOf(u)),
     active_projects   |-> Count({id \in ProjectsOf(u) : projects[id].status = "active"}),
     total_categories  |-> Count(CategoriesOf(u))]

\* GetOverview that archives the completed tasks it has counted
GetOverview_ArchivesCompleted(u) ==
    /\ req.kind = "idle"
    /\ LET r == Queried(Frame("overview", u, Absent), 7)
       IN  resp' = SuccessResponse(r, Overview(u))
    /\ tasks' = [id \in DOMAIN tasks |->
                    IF id \in TasksOf(u) /\ tasks[id].status = "completed"
                    THEN [tasks[id] EXCEPT !.deleted = TRUE] ELSE tasks[id]]
    /\ UNCHANGED <<writers, writes, now, ticks, dbUp, outages, categories, projects, req>>

GetOverview(u) ==
    /\ req.kind = "idle"
    /\ LET r == Queried(Frame("overview", u, Absent), 7)
       IN  resp' = SuccessResponse(r, Overview(u))
    /\ UNCHANGED <<writers, writes, now, ticks, dbUp, outages, tasks, categories, projects, req>>

(***************************************************************************)
(* GetDailyStats                                                           *)
(***************************************************************************)
\* DaysParam with the upper limit off by one
DaysParam_UpTo31(param) ==
    LET daysStr == DefaultQuery(param, <<"7">>)
        d       == SafeStringConvert(daysStr)
        parsed  == SafeIntConvert(d)
    IN  IF d # <<>> /\ ~parsed.err /\ parsed.v > 0 /\ parsed.v <= 31
        THEN parsed.v ELSE 7

\* the days parameter as the handler reads it
DaysParam(param) ==
    LET daysStr == DefaultQuery(param, <<"7">>)
        d       == SafeStringConvert(daysStr)
        parsed  == SafeIntConvert(d)
    IN  IF d # <<>> /\ ~parsed.err /\ parsed.v > 0 /\ parsed.v <= 30
        THEN parsed.v ELSE 7

\* one iteration of the loop: the entry of day now - i
DailyEntry(u, i) ==
    LET date    == AddDate(now, 0, 0, 0 - i)
        dateStr == FormatDate(date)
    IN  [date            |-> dateStr,
         tasks_created   |-> Count({id \in TasksOf(u) :
                                      DateIs(tasks[id].created_at, dateStr)}),
         tasks_completed |-> Count({id \in TasksOf(u) :
                                      DateIs(tasks[id].completed_at, dateStr)})]

GetDailyStats_Begin(u, param) ==
    /\ req.kind = "idle"
    /\ LET days == DaysParam(param)
       IN  req' = [Frame("daily", u, param) EXCEPT !.pc = "loop", !.n = days,
                                                   !.i = days - 1]
    /\ resp' = NoResp
    /\ UNCHANGED <<writers, writes, now, ticks, dbUp, outages, tasks, categories, projects>>

GetDailyStats_Loop ==
    /\ req.kind = "daily" /\ req.pc = "loop"
    /\ LET r == [Queried(req, 2) EXCEPT !.acc = Append(@, DailyEntry(req.user, req.i)),
                                        !.i = @ - 1]
       IN  IF r.i >= 0
           THEN req' = r /\ resp' = resp
           ELSE req' = Idle /\ resp' = SuccessResponse(r, r.acc)
    /\ UNCHANGED <<writers, writes, now, ticks, dbUp, outages, tasks, categories, projects>>

(***************************************************************************)
(* GetWeeklyStats                                                          *)
(***************************************************************************)
WeeksParam(param) ==
    LET weeksStr == DefaultQuery(param, <<"4">>)
        w        == SafeStringConvert(weeksStr)
        parsed   == SafeIntConvert(w)
    IN  IF w # <<>> /\ ~parsed.err /\ parsed.v > 0 /\ parsed.v <= 12
        THEN parsed.v ELSE 4

\* WeekStart that goes back to the Sunday instead of the Monday
WeekStart_FromSunday(i) == AddDate(now, 0, 0, 0 - Weekday(now) - i * 7)

\* weekStart of iteration i
WeekStart(i) == AddDate(now, 0, 0, 0 - Weekday(now) + 1 - i * 7)
WeekEnd(weekStart) == AddDate(weekStart, 0, 0, 6)

WeeklyEntry(u, i) ==
    LET weekStart == WeekStart(i)
        weekEnd   == WeekEnd(weekStart)
        hi        == Add(weekEnd, 24 * Hour)
    IN  [week            |-> FormatDate(weekStart) \o <<" 至 ">> \o FormatDate(weekEnd),
         tasks_created   |-> Count({id \in TasksOf(u) :
                                      Between(tasks[id].created_at, weekStart, hi)}),
         tasks_completed |-> Count({id \in TasksOf(u) :
                                      Between(tasks[id].completed_at, weekStart, hi)})]

GetWeeklyStats_Begin(u, param) ==
    /\ req.kind = "idle"
    /\ LET weeks == WeeksParam(param)
       IN  req' = [Frame("weekly", u, param) EXCEPT !.pc = "loop", !.n = weeks,
                                                    !.i = weeks - 1]
    /\ resp' = NoResp
    /\ UNCHANGED <<writers, writes, now, ticks, dbUp, outages, tasks, categories, projects>>

GetWeeklyStats_Loop ==
    /\ req.kind = "weekly" /\ req.pc = "loop"
    /\ LET r == [Queried(req, 2) EXCEPT !.acc = Append(@, WeeklyEntry(req.user, req.i)),
                                        !.i = @ - 1]
       IN  IF r.i >= 0
           THEN req' = r /\ resp' = resp
           ELSE req' = Idle /\ resp' = SuccessResponse(r, r.acc)
    /\ UNCHANGED <<writers, writes, now, ticks, dbUp, outages, tasks, categories, projects>>

(***************************************************************************)
(* GetProductivityStats                                                    *)
(***************************************************************************)
\* TIMESTAMPDIFF(HOUR, a, b) for a <= b: whole hours from a to b
TimestampDiffHours(a, b) ==
    (DayOf(b) - DayOf(a)) * 24 + (MsOf(b) - MsOf(a)) \div Hour

RECURSIVE SumHours(_)
SumHours(S) ==
    IF S = {} THEN 0
    ELSE LET id == CHOOSE x \in S : TRUE
         IN  TimestampDiffHours(tasks[id].created_at, tasks[id].completed_at)
             + SumHours(S \ {id})

\* the raw SELECT AVG(TIMESTAMPDIFF(HOUR, created_at, completed_at)): it names
\* no deleted_at condition; without rows, or when it fails, Hours stays 0
AvgCompletionTime(u) ==
    LET rows == {id \in DOMAIN tasks : /\ tasks[id].user_id = u
                                       /\ tasks[id].status = "completed"
                                       /\ ~IsNil(tasks[id].completed_at)}
    IN  IF dbUp /\ rows # {} THEN Rat(SumHours(rows), Cardinality(rows))
        ELSE Float(0)

WithPriority(u, priority) == {id \in TasksOf(u) : tasks[id].priority = priority}
Completed(S) == {id \in S : tasks[id].status = "completed"}

\* the two counts of one iteration of the loop over the priorities
PriorityTotal(u, priority) == Count(WithPriority(u, priority))
PriorityCompleted(u, priority) == Count(Completed(WithPriority(u, priority)))

\* the statements before the loop over the priorities, and the locals the
\* later statements fill
ProductivityBase(u) ==
    LET totalTasks     == Count(TasksOf(u))
        completedTasks == Count(Completed(TasksOf(u)))
    IN  [total_tasks     |-> totalTasks,
         completed_tasks |-> completedTasks,
         completion_rate |-> CompletionRate(completedTasks, totalTasks),
         priority_distribution |->
             [k \in 1..Len(Priorities) |-> Count(WithPriority(u, Priorities[k]))],
         total |-> 0,
         priority_totals |-> <<>>,
         priority_completed |-> <<>>,
         priority_completion_rates |-> <<>>,
         avg_completion_time_hours |-> Float(0),
         categories |-> <<>>,
         category_efficiency |-> <<>>]

\* one iteration of the 7-day loop
ProductivityEntry(u, i) ==
    LET date      == AddDate(now, 0, 0, 0 - i)
        dateStr   == FormatDate(date)
        created   == Count({id \in TasksOf(u) : DateIs(tasks[id].created_at, dateStr)})
        completed == Count({id \in TasksOf(u) : DateIs(tasks[id].completed_at, dateStr)})
    IN  [date |-> dateStr, created |-> created, completed |-> completed,
         efficiency |-> Efficiency(created, completed)]

\* sc.DB.Where("user_id = ?", userID).Find(&categories): the rows as read
CategoryList(u) ==
    LET cats == Find(CategoriesOf(u))
    IN  [k \in 1..Len(cats) |-> [id |-> cats[k], name |-> categories[cats[k]].name]]

\* the two counts of one iteration of the loop over the categories
CategoryTotal(u, cid) == Count({id \in TasksOf(u) : tasks[id].category_id = cid})
CategoryCompleted(u, cid) ==
    Count(Completed({id \in TasksOf(u) : tasks[id].category_id = cid}))

\* the entry one iteration appends
CategoryEntry(category, total, completed) ==
    [category_name |-> category.name, total_tasks |-> total,
     completed_tasks |-> completed,
     completion_rate |-> CategoryRate(completed, total)]

\* Overdue that looks at the due date only
Overdue_IgnoresStatus(u) ==
    {id \in TasksOf(u) : /\ ~IsNil(tasks[id].due_date)
                         /\ TimeLess(tasks[id].due_date, now)}

\* Where("user_id = ? AND status != 'completed' AND due_date < ?", userID,
\* time.Now()): a NULL due_date never compares
Overdue(u) ==
    {id \in TasksOf(u) : /\ tasks[id].status # "completed"
                         /\ ~IsNil(tasks[id].due_date)
                         /\ TimeLess(tasks[id].due_date, now)}

\* the statements after the loop over the categories
ProductivityTail(u) ==
    LET today    == FormatDate(now)
        overdue  == Count(Overdue(u))
        todayTasks     == Count({id \in TasksOf(u) : DateIs(tasks[id].due_date, today)})
        todayCompleted == Count(Completed({id \in TasksOf(u) :
                                             DateIs(tasks[id].due_date, today)}))
    IN  [overdue_tasks |-> overdue,
         today |-> [total_tasks |-> todayTasks, completed_tasks |-> todayCompleted,
                    completion_rate |-> TodayRate(todayCompleted, todayTasks)]]

GetProductivityStats_Begin(u) ==
    /\ req.kind = "idle"
    /\ req' = [Queried(Frame("productivity", u, Absent), 6)
                  EXCEPT !.pc = "ptotal", !.i = 1, !.part = ProductivityBase(u)]
    /\ resp' = NoResp
    /\ UNCHANGED <<writers, writes, now, ticks, dbUp, outages, tasks, categories, projects>>

\* Count(&total) of one iteration of the loop over the priorities
GetProductivityStats_PriorityTotal ==
    /\ req.kind = "productivity" /\ req.pc = "ptotal"
    /\ req' = [Queried(req, 1) EXCEPT
                  !.part.total = PriorityTotal(req.user, Priorities[req.i]),
                  !.pc = "pcompleted"]
    /\ UNCHANGED <<writers, writes, now, ticks, dbUp, outages, tasks, categories, projects, resp>>

\* Count(&completed) of one iteration and the rate; after the last iteration
\* the AVG query
GetProductivityStats_PriorityCompleted ==
    /\ req.kind = "productivity" /\ req.pc = "pcompleted"
    /\ LET completed == PriorityCompleted(req.user, Priorities[req.i])
           r == [Queried(req, 1) EXCEPT
                    !.part.priority_totals = Append(@, req.part.total),
                    !.part.priority_completed = Append(@, completed),
                    !.part.priority_completion_rates =
                        Append(@, PriorityRate(completed, req.part.total))]
       IN  IF req.i < Len(Priorities)
           THEN req' = [r EXCEPT !.i = @ + 1, !.pc = "ptotal"]
           ELSE req' = [Queried(r, 1) EXCEPT
                           !.part.avg_completion_time_hours = AvgCompletionTime(req.user),
                           !.n = 7, !.i = 6, !.pc = "loop"]
    /\ UNCHANGED <<writers, writes, now, ticks, dbUp, outages, tasks, categories, projects, resp>>

GetProductivityStats_Loop ==
    /\ req.kind = "productivity" /\ req.pc = "loop"
    /\ req' = [Queried(req, 2) EXCEPT
                  !.acc = Append(@, ProductivityEntry(req.user, req.i)),
                  !.i = @ - 1,
                  !.pc = IF req.i = 0 THEN "categories" ELSE "loop"]
    /\ UNCHANGED <<writers, writes, now, ticks, dbUp, outages, tasks, categories, projects, resp>>

\* the Find before the loop over the categories
GetProductivityStats_Categories ==
    /\ req.kind = "productivity" /\ req.pc = "categories"
    /\ LET cats == CategoryList(req.user)
       IN  req' = [Queried(req, 1) EXCEPT
                      !.part.categories = cats, !.i = 1,
                      !.pc = IF Len(cats) > 0 THEN "ctotal" ELSE "tail"]
    /\ UNCHANGED <<writers, writes, now, ticks, dbUp, outages, tasks, categories, projects, resp>>

\* Count(&total) of one iteration of the loop over the categories
GetProductivityStats_CategoryTotal ==
    /\ req.kind = "productivity" /\ req.pc = "ctotal"
    /\ req' = [Queried(req, 1) EXCEPT
                  !.part.total = CategoryTotal(req.user, req.part.categories[req.i].id),
                  !.pc = "ccompleted"]
    /\ UNCHANGED <<writers, writes, now, ticks, dbUp, outages, tasks, categories, projects, resp>>

\* Count(&completed) of one iteration and the append
GetProductivityStats_CategoryCompleted ==
    /\ req.kind = "productivity" /\ req.pc = "ccompleted"
    /\ LET category  == req.part.categories[req.i]
           completed == CategoryCompleted(req.user, category.id)
       IN  req' = [Queried(req, 1) EXCEPT
                      !.part.category_efficiency =
                          Append(@, CategoryEntry(category, req.part.total, completed)),
                      !.i = @ + 1,
                      !.pc = IF req.i < Len(req.part.categories)
                             THEN "ctotal" ELSE "tail"]
    /\ UNCHANGED <<writers, writes, now, ticks, dbUp, outages, tasks, categories, projects, resp>>

\* the gin.H the handler responds with
ProductivityData(base, recent, tail) ==
    [overview |-> [total_tasks     |-> base.total_tasks,
                   completed_tasks |-> base.completed_tasks,
                   completion_rate |-> base.completion_rate,
                   overdue_tasks   |-> tail.overdue_tasks],
     priority_distribution     |-> base.priority_distribution,
     priority_completion_rates |-> base.priority_completion_rates,
     avg_completion_time_hours |-> base.avg_completion_time_hours,
     recent_productivity       |-> recent,
     category_efficiency       |-> base.category_efficiency,
     today                     |-> tail.today]

GetProductivityStats_End ==
    /\ req.kind = "productivity" /\ req.pc = "tail"
    /\ LET r == Queried(req, 3)
       IN  resp' = SuccessResponse(r,
              ProductivityData(req.part, req.acc, ProductivityTail(req.user)))
    /\ req' = Idle
    /\ UNCHANGED <<writers, writes, now, ticks, dbUp, outages, tasks, categories, projects>>

(***************************************************************************)
(* GetMonthlyReport                                                        *)
(***************************************************************************)
MonthStart(month) == Date(Year(month), Month(month), 1, 0)
MonthEnd(monthStart) == Add(AddDate(monthStart, 0, 1, 0), 0 - Second)
\* DaysInMonth with a fixed month length
DaysInMonth_Thirty(monthEnd) == 30
DaysInMonth(monthEnd) == Day(monthEnd)

\* the three counts of the summary
MonthlySummary(u, month) ==
    LET monthStart == MonthStart(month)
        monthEnd   == MonthEnd(monthStart)
        created    == Count({id \in TasksOf(u) :
                               Between(tasks[id].created_at, monthStart, monthEnd)})
        completed  == Count({id \in TasksOf(u) :
                               Between(tasks[id].completed_at, monthStart, monthEnd)})
        inProgress == Count({id \in TasksOf(u) :
                               /\ tasks[id].status = "in_progress"
                               /\ Between(tasks[id].created_at, monthStart, monthEnd)})
    IN  [tasks_created |-> created, tasks_completed |-> completed,
         tasks_in_progress |-> inProgress]

\* one iteration of the loop over the days of the month
DailyTrend(u, month, day) ==
    LET dayStart == Date(Year(month), Month(month), day, 0)
        dayEnd   == Add(dayStart, 24 * Hour - Second)
    IN  [day       |-> day,
         created   |-> Count({id \in TasksOf(u) :
                                Between(tasks[id].created_at, dayStart, dayEnd)}),
         completed |-> Count({id \in TasksOf(u) :
                                Between(tasks[id].completed_at, dayStart, dayEnd)})]

\* ProjectList without the projects that have no task
ProjectList_SkipsEmpty(u) ==
    LET ps == Find({pid \in ProjectsOf(u) :
                       \E id \in TasksOf(u) : tasks[id].project_id = pid})
    IN  [k \in 1..Len(ps) |-> [id |-> ps[k], name |-> projects[ps[k]].name]]

\* sc.DB.Where("user_id = ?", userID).Find(&projects): the rows as read
ProjectList(u) ==
    LET ps == Find(ProjectsOf(u))
    IN  [k \in 1..Len(ps) |-> [id |-> ps[k], name |-> projects[ps[k]].name]]

\* the two counts of one iteration of the loop over the projects
ProjectTotal(u, pid) == Count({id \in TasksOf(u) : tasks[id].project_id = pid})
\* ProjectCompleted without the project_id condition
ProjectCompleted_AnyProject(u, pid) == Count(Completed(TasksOf(u)))
ProjectCompleted(u, pid) ==
    Count(Completed({id \in TasksOf(u) : tasks[id].project_id = pid}))

\* the entry one iteration appends
ProjectEntry(project, total, completed) ==
    [project_name |-> project.name, total_tasks |-> total,
     completed |-> completed, progress |-> ProjectProgress(completed, total)]

GetMonthlyReport_Begin(u, param) ==
    /\ req.kind = "idle"
    /\ LET monthStr == DefaultQuery(param, FormatMonth(now))
           parsed   == ParseMonth(monthStr)
           r        == Frame("monthly", u, param)
       IN  IF parsed.err
           THEN /\ resp' = ErrorResponse(r, StatusBadRequest, "month format")
                /\ req' = Idle
           ELSE /\ req' = [Queried(r, 3) EXCEPT
                             !.pc = "loop", !.i = 1,
                             !.n = DaysInMonth(MonthEnd(MonthStart(parsed.t))),
                             !.part = [monthStr |-> monthStr, month |-> parsed.t,
                                       summary  |-> MonthlySummary(u, parsed.t),
                                       projects |-> <<>>, total |-> 0,
                                       project_progress |-> <<>>]]
                /\ resp' = NoResp
    /\ UNCHANGED <<writers, writes, now, ticks, dbUp, outages, tasks, categories, projects>>

GetMonthlyReport_Loop ==
    /\ req.kind = "monthly" /\ req.pc = "loop"
    /\ req' = [Queried(req, 2) EXCEPT
                  !.acc = Append(@, DailyTrend(req.user, req.part.month, req.i)),
                  !.i = @ + 1,
                  !.pc = IF req.i + 1 <= req.n THEN "loop" ELSE "projects"]
    /\ UNCHANGED <<writers, writes, now, ticks, dbUp, outages, tasks, categories, projects, resp>>

\* the loop over the projects, all its counts read in one state of the store
ProjectProgressList(u) ==
    LET ps == ProjectList(u)
    IN  [k \in 1..Len(ps) |->
            ProjectEntry(ps[k], ProjectTotal(u, ps[k].id), ProjectCompleted(u, ps[k].id))]

\* the report the handler responds with
MonthlyData(monthStr, s, dailyTrends, projectProgress) ==
    [month   |-> monthStr,
     summary |-> [tasks_created     |-> s.tasks_created,
                  tasks_completed   |-> s.tasks_completed,
                  tasks_in_progress |-> s.tasks_in_progress,
                  completion_rate   |-> MonthlyRate(s.tasks_completed, s.tasks_created)],
     daily_trends     |-> dailyTrends,
     project_progress |-> projectProgress]

\* the Find before the loop over the projects; without projects the report
\* is complete
GetMonthlyReport_Projects ==
    /\ req.kind = "monthly" /\ req.pc = "projects"
    /\ LET ps == ProjectList(req.user)
           r  == Queried(req, 1)
       IN  IF Len(ps) > 0
           THEN /\ req' = [r EXCEPT !.part.projects = ps, !.i = 1, !.pc = "total"]
                /\ resp' = resp
           ELSE /\ req' = Idle
                /\ resp' = SuccessResponse(r,
                       MonthlyData(req.part.monthStr, req.part.summary, req.acc, <<>>))
    /\ UNCHANGED <<writers, writes, now, ticks, dbUp, outages, tasks, categories, projects>>

\* Count(&total) of one iteration
GetMonthlyReport_Total ==
    /\ req.kind = "monthly" /\ req.pc = "total"
    /\ req' = [Queried(req, 1) EXCEPT
                  !.part.total = ProjectTotal(req.user, req.part.projects[req.i].id),
                  !.pc = "completed"]
    /\ UNCHANGED <<writers, writes, now, ticks, dbUp, outages, tasks, categories, projects, resp>>

\* Count(&completed) of one iteration and the append; after the last
\* iteration the response
GetMonthlyReport_Completed ==
    /\ req.kind = "monthly" /\ req.pc = "completed"
    /\ LET project   == req.part.projects[req.i]
           completed == ProjectCompleted(req.user, project.id)
           r == [Queried(req, 1) EXCEPT
                    !.part.project_progress =
                        Append(@, ProjectEntry(project, req.part.total, completed))]
       IN  IF req.i < Len(req.part.projects)
           THEN /\ req' = [r EXCEPT !.i = @ + 1, !.pc = "total"]
                /\ resp' = resp
           ELSE /\ req' = Idle
                /\ resp' = SuccessResponse(r,
                       MonthlyData(req.part.monthStr, req.part.summary, req.acc,
                                   r.part.project_progress))
    /\ UNCHANGED <<writers, writes, now, ticks, dbUp, outages, tasks, categories, projects>>

(***************************************************************************)
(* TaskController: the requests that write table tasks.  gin serves every  *)
(* request in a goroutine of its own, so two write requests can be in      *)
(* flight together; writers[c] is the frame of the one on connection c.    *)
(* DeleteTask and the two batch requests change the table with one         *)
(* statement; CreateTask checks the references of the body and inserts     *)
(* later; UpdateTask and UpdateTaskStatus read the row (First) and write   *)
(* every column of it back later (Save), so they take two steps and the    *)
(* frame keeps the row that was read.  The title and the description of a  *)
(* task are left out: no report reads them.                                *)
(***************************************************************************)
Conns == {1, 2}

StatusForbidden == 403
StatusConflict == 409
StatusInternalServerError == 500

\* no request on a connection; code is the status of the last response on it
WIdle == [kind |-> "idle", user |-> 0, id |-> 0, body |-> <<>>, row |-> <<>>,
          code |-> 0]

\* the frame of a write request in flight: the user, the id of the route, the
\* body bound and the row read
WFrame(kind, u, id, body, row) ==
    [kind |-> kind, user |-> u, id |-> id, body |-> body, row |-> row, code |-> 0]

\* the connections after the request on c was answered with the given status
Respond(c, code) == [writers EXCEPT ![c] = [WIdle EXCEPT !.code = code]]

\* middleware.ResourceOwnership: Count of the rows with the id and the user_id
\* among those gorm selects, the error ignored; c.Next() when it is not 0
ResourceOwnership(S, id) == Count({x \in S : x = id}) # 0

\* models.TaskRequest: a nil due date is NilTime, a nil id is 0
TaskRequest(priority, due, cid, pid) ==
    [priority |-> priority, due_date |-> due, category_id |-> cid, project_id |-> pid]

\* models.TaskStatusRequest
TaskStatusRequest(status) == [status |-> status]

\* ValidRefs without the user_id condition of the two queries
ValidRefs_AnyOwner(u, body) ==
    /\ body.category_id # 0 =>
          (dbUp /\ body.category_id \in DOMAIN categories
                /\ NotDeleted(categories[body.category_id]))
    /\ body.project_id # 0 =>
          (dbUp /\ body.project_id \in DOMAIN projects
                /\ NotDeleted(projects[body.project_id]))

\* the two ownership checks of CreateTask and UpdateTask: First by id and
\* user_id, any error refuses the request
ValidRefs(u, body) ==
    /\ body.category_id # 0 => (dbUp /\ body.category_id \in CategoriesOf(u))
    /\ body.project_id # 0 => (dbUp /\ body.project_id \in ProjectsOf(u))

\* the id AUTO_INCREMENT gives the next row
NextID == IF DOMAIN tasks = {} THEN 1
          ELSE (CHOOSE m \in DOMAIN tasks : \A k \in DOMAIN tasks : k <= m) + 1

\* tc.DB.Create(&task): an empty priority becomes the column default
NewTask(u, body) ==
    TaskRow(u, "pending", IF body.priority = "" THEN "medium" ELSE body.priority,
            now, NilTime, body.due_date, body.category_id, body.project_id, FALSE)

\* CreateTask up to the two ownership checks
CreateTask_Check(c, u, body) ==
    /\ writers[c].kind = "idle" /\ writes < MaxWrites
    /\ writes' = writes + 1
    /\ writers' = IF ValidRefs(u, body)
                  THEN [writers EXCEPT ![c] = WFrame("create", u, 0, body, <<>>)]
                  ELSE Respond(c, StatusBadRequest)
    /\ UNCHANGED <<now, ticks, dbUp, outages, tasks, categories, projects, req, resp>>

\* tc.DB.Create(&task) and the response
CreateTask_Create(c) ==
    /\ writers[c].kind = "create"
    /\ IF dbUp
       THEN /\ tasks' = [id \in DOMAIN tasks \cup {NextID} |->
                            IF id = NextID THEN NewTask(writers[c].user, writers[c].body)
                            ELSE tasks[id]]
            /\ writers' = Respond(c, StatusOK)
       ELSE /\ tasks' = tasks
            /\ writers' = Respond(c, StatusInternalServerError)
    /\ UNCHANGED <<now, ticks, dbUp, outages, categories, projects, req, resp, writes>>

\* tc.DB.Save(&task): UPDATE of every column WHERE id = ? AND deleted_at IS
\* NULL.  When the row was soft-deleted in the meantime the UPDATE matches no
\* row; older versions of gorm leave it at that, newer ones then insert the
\* struct ON DUPLICATE KEY UPDATE of every column, deleted_at included.
\* Column priority is an enum('low','medium','high','urgent'): a server in
\* strict SQL mode refuses the statement that sets it to '', a server that is
\* not stores ''.  Each outcome is the table and the status of the response.
SaveOutcomes(id, row) ==
    IF ~dbUp THEN {[tasks |-> tasks, code |-> StatusInternalServerError]}
    ELSE (IF NotDeleted(tasks[id])
          THEN {[tasks |-> [tasks EXCEPT ![id] = row], code |-> StatusOK]}
          ELSE {[tasks |-> tasks, code |-> StatusOK],
                [tasks |-> [tasks EXCEPT ![id] = row], code |-> StatusOK]})
         \cup (IF \E k \in 1..Len(Priorities) : row.priority = Priorities[k]
               THEN {}
               ELSE {[tasks |-> tasks, code |-> StatusInternalServerError]})

\* the ownership check of the route and UpdateTask up to the two ownership
\* checks of the body
UpdateTask_Read(c, u, id, body) ==
    /\ writers[c].kind = "idle" /\ writes < MaxWrites
    /\ writes' = writes + 1
    /\ writers' = IF ~ResourceOwnership(TasksOf(u), id)
                  THEN Respond(c, StatusForbidden)
                  ELSE IF ~ValidRefs(u, body)
                  THEN Respond(c, StatusBadRequest)
                  ELSE [writers EXCEPT ![c] = WFrame("update", u, id, body, tasks[id])]
    /\ UNCHANGED <<now, ticks, dbUp, outages, tasks, categories, projects, req, resp>>

\* the row UpdateTask saves
UpdatedTask(row, body) ==
    [row EXCEPT !.priority = body.priority, !.due_date = body.due_date,
                !.category_id = body.category_id, !.project_id = body.project_id]

UpdateTask_Save(c) ==
    /\ writers[c].kind = "update"
    /\ \E o \in SaveOutcomes(writers[c].id, UpdatedTask(writers[c].row, writers[c].body)) :
          /\ tasks' = o.tasks
          /\ writers' = Respond(c, o.code)
    /\ UNCHANGED <<now, ticks, dbUp, outages, categories, projects, req, resp, writes>>

UpdateTaskStatus_Read(c, u, id, body) ==
    /\ writers[c].kind = "idle" /\ writes < MaxWrites
    /\ writes' = writes + 1
    /\ writers' = IF ~ResourceOwnership(TasksOf(u), id)
                  THEN Respond(c, StatusForbidden)
                  ELSE [writers EXCEPT ![c] = WFrame("status", u, id, body, tasks[id])]
    /\ UNCHANGED <<now, ticks, dbUp, outages, tasks, categories, projects, req, resp>>

\* StatusUpdate that keeps the completion time of a task that is reopened
StatusUpdate_KeepsCompletedAt(row, status) ==
    [row EXCEPT !.status = status,
                !.completed_at = IF status = "completed" /\ IsNil(@) THEN now ELSE @]

\* the row UpdateTaskStatus saves
StatusUpdate(row, status) ==
    [row EXCEPT !.status = status,
                !.completed_at = IF status = "completed" /\ IsNil(@) THEN now
                                 ELSE IF status # "completed" THEN NilTime
                                 ELSE @]

UpdateTaskStatus_Save(c) ==
    /\ writers[c].kind = "status"
    /\ \E o \in SaveOutcomes(writers[c].id,
                             StatusUpdate(writers[c].row, writers[c].body.status)) :
          /\ tasks' = o.tasks
          /\ writers' = Respond(c, o.code)
    /\ UNCHANGED <<now, ticks, dbUp, outages, categories, projects, req, resp, writes>>

\* the ownership check of the route and
\* Where("id = ? AND user_id = ?", taskID, userID).Delete(&models.Task{})
DeleteTask(c, u, id) ==
    /\ writers[c].kind = "idle" /\ writes < MaxWrites
    /\ writes' = writes + 1
    /\ IF ResourceOwnership(TasksOf(u), id)
       THEN /\ tasks' = [k \in DOMAIN tasks |->
                            IF k = id /\ k \in TasksOf(u)
                            THEN [tasks[k] EXCEPT !.deleted = TRUE] ELSE tasks[k]]
            /\ writers' = Respond(c, StatusOK)
       ELSE /\ tasks' = tasks
            /\ writers' = Respond(c, StatusForbidden)
    /\ UNCHANGED <<now, ticks, dbUp, outages, categories, projects, req, resp>>

\* BatchUpdates that stamps the completion time whatever the new status
BatchUpdates_AlwaysStamps(status) == [status |-> status, completed_at |-> now]

\* the columns BatchUpdateTaskStatus sets
BatchUpdates(status) ==
    [status |-> status,
     completed_at |-> IF status = "completed" THEN now ELSE NilTime]

\* Model(&models.Task{}).Where("id IN ? AND user_id = ?", ids, u).Updates(updates)
BatchUpdateTaskStatus(c, u, ids, status) ==
    /\ writers[c].kind = "idle" /\ writes < MaxWrites
    /\ writes' = writes + 1
    /\ tasks' = [k \in DOMAIN tasks |->
                    IF dbUp /\ k \in ids /\ k \in TasksOf(u)
                    THEN [tasks[k] EXCEPT !.status = BatchUpdates(status).status,
                                          !.completed_at = BatchUpdates(status).completed_at]
                    ELSE tasks[k]]
    /\ writers' = Respond(c, IF dbUp THEN StatusOK ELSE StatusInternalServerError)
    /\ UNCHANGED <<now, ticks, dbUp, outages, categories, projects, req, resp>>

\* Where("id IN ? AND user_id = ?", ids, u).Delete(&models.Task{})
BatchDeleteTasks(c, u, ids) ==
    /\ writers[c].kind = "idle" /\ writes < MaxWrites
    /\ writes' = writes + 1
    /\ tasks' = [k \in DOMAIN tasks |->
                    IF dbUp /\ k \in ids /\ k \in TasksOf(u)
                    THEN [tasks[k] EXCEPT !.deleted = TRUE] ELSE tasks[k]]
    /\ writers' = Respond(c, IF dbUp THEN StatusOK ELSE StatusInternalServerError)
    /\ UNCHANGED <<now, ticks, dbUp, outages, categories, projects, req, resp>>

(***************************************************************************)
(* CategoryController and ProjectController: the requests that write the   *)
(* tables categories and projects.  Create checks the name (First) and     *)
(* inserts later; Update reads the row, checks the name and saves later;   *)
(* Delete counts the tasks that refer to the row, clears their reference   *)
(* when force=true was given, and soft-deletes the row, one statement      *)
(* after the other.  Description, color and the dates are left out.        *)
(***************************************************************************)
\* models.CategoryRequest and models.ProjectRequest
CategoryRequest(name) == [name |-> name]
ProjectRequest(name, status) == [name |-> name, status |-> status]

\* Where("name = ? AND user_id = ?", name, u).First(&existing) finds a row;
\* with except # 0 the query adds AND id != except
NameTaken(table, S, name, except) ==
    dbUp /\ \E id \in S : id # except /\ table[id].name = name

\* DB.Save(&row) of a category or a project: as for a task, the row written,
\* or, when it was soft-deleted in the meantime, nothing or the row upserted
SaveRowOutcomes(table, id, row) ==
    IF ~dbUp THEN {[table |-> table, code |-> StatusInternalServerError]}
    ELSE IF NotDeleted(table[id])
    THEN {[table |-> [table EXCEPT ![id] = row], code |-> StatusOK]}
    ELSE {[table |-> table, code |-> StatusOK],
          [table |-> [table EXCEPT ![id] = row], code |-> StatusOK]}

CreateCategory_Check(c, u, body) ==
    /\ writers[c].kind = "idle" /\ writes < MaxWrites
    /\ writes' = writes + 1
    /\ writers' = IF NameTaken(categories, CategoriesOf(u), body.name, 0)
                  THEN Respond(c, StatusConflict)
                  ELSE [writers EXCEPT ![c] = WFrame("create_category", u, 0, body, <<>>)]
    /\ UNCHANGED <<now, ticks, dbUp, outages, tasks, categories, projects, req, resp>>

CreateCategory_Create(c) ==
    /\ writers[c].kind = "create_category"
    /\ IF dbUp
       THEN /\ categories' = Append(categories,
                                    [name |-> writers[c].body.name,
                                     user_id |-> writers[c].user, deleted |-> FALSE])
            /\ writers' = Respond(c, StatusOK)
       ELSE /\ categories' = categories
            /\ writers' = Respond(c, StatusInternalServerError)
    /\ UNCHANGED <<now, ticks, dbUp, outages, tasks, projects, req, resp, writes>>

UpdateCategory_Read(c, u, id, body) ==
    /\ writers[c].kind = "idle" /\ writes < MaxWrites
    /\ writes' = writes + 1
    /\ writers' = IF ~ResourceOwnership(CategoriesOf(u), id)
                  THEN Respond(c, StatusForbidden)
                  ELSE IF NameTaken(categories, CategoriesOf(u), body.name, id)
                  THEN Respond(c, StatusConflict)
                  ELSE [writers EXCEPT ![c] =
                           WFrame("update_category", u, id, body, categories[id])]
    /\ UNCHANGED <<now, ticks, dbUp, outages, tasks, categories, projects, req, resp>>

UpdateCategory_Save(c) ==
    /\ writers[c].kind = "update_category"
    /\ \E o \in SaveRowOutcomes(categories, writers[c].id,
                                [writers[c].row EXCEPT !.name = writers[c].body.name]) :
          /\ categories' = o.table
          /\ writers' = Respond(c, o.code)
    /\ UNCHANGED <<now, ticks, dbUp, outages, tasks, projects, req, resp, writes>>

\* the ownership check of the route and DeleteCategory up to the decision
\* on the count of the tasks of the category; force is the query parameter
DeleteCategory_Count(c, u, id, force) ==
    /\ writers[c].kind = "idle" /\ writes < MaxWrites
    /\ writes' = writes + 1
    /\ LET taskCount == Count({k \in TasksOf(u) : tasks[k].category_id = id})
       IN  writers' =
               IF ~ResourceOwnership(CategoriesOf(u), id)
               THEN Respond(c, StatusForbidden)
               ELSE IF taskCount > 0 /\ force # "true"
               THEN Respond(c, StatusConflict)
               ELSE [writers EXCEPT ![c] =
                        WFrame(IF taskCount > 0 THEN "clear_category"
                               ELSE "delete_category", u, id, <<>>, categories[id])]
    /\ UNCHANGED <<now, ticks, dbUp, outages, tasks, categories, projects, req, resp>>

\* Where("category_id = ? AND user_id = ?", id, u).Update("category_id", nil)
DeleteCategory_Clear(c) ==
    /\ writers[c].kind = "clear_category"
    /\ IF dbUp
       THEN /\ tasks' = [k \in DOMAIN tasks |->
                            IF k \in TasksOf(writers[c].user)
                               /\ tasks[k].category_id = writers[c].id
                            THEN [tasks[k] EXCEPT !.category_id = 0] ELSE tasks[k]]
            /\ writers' = [writers EXCEPT ![c].kind = "delete_category"]
       ELSE /\ tasks' = tasks
            /\ writers' = Respond(c, StatusInternalServerError)
    /\ UNCHANGED <<now, ticks, dbUp, outages, categories, projects, req, resp, writes>>

\* cc.DB.Delete(&category): the soft delete of the row read
DeleteCategory_Delete(c) ==
    /\ writers[c].kind = "delete_category"
    /\ IF dbUp
       THEN /\ categories' = [categories EXCEPT ![writers[c].id].deleted = TRUE]
            /\ writers' = Respond(c, StatusOK)
       ELSE /\ categories' = categories
            /\ writers' = Respond(c, StatusInternalServerError)
    /\ UNCHANGED <<now, ticks, dbUp, outages, tasks, projects, req, resp, writes>>

CreateProject_Check(c, u, body) ==
    /\ writers[c].kind = "idle" /\ writes < MaxWrites
    /\ writes' = writes + 1
    /\ writers' = IF NameTaken(projects, ProjectsOf(u), body.name, 0)
                  THEN Respond(c, StatusConflict)
                  ELSE [writers EXCEPT ![c] = WFrame("create_project", u, 0, body, <<>>)]
    /\ UNCHANGED <<now, ticks, dbUp, outages, tasks, categories, projects, req, resp>>

CreateProject_Create(c) ==
    /\ writers[c].kind = "create_project"
    /\ IF dbUp
       THEN /\ projects' = Append(projects,
                                  [name |-> writers[c].body.name,
                                   status |-> IF writers[c].body.status = ""
                                              THEN "active" ELSE writers[c].body.status,
                                   user_id |-> writers[c].user, deleted |-> FALSE])
            /\ writers' = Respond(c, StatusOK)
       ELSE /\ projects' = projects
            /\ writers' = Respond(c, StatusInternalServerError)
    /\ UNCHANGED <<now, ticks, dbUp, outages, tasks, categories, req, resp, writes>>

UpdateProject_Read(c, u, id, body) ==
    /\ writers[c].kind = "idle" /\ writes < MaxWrites
    /\ writes' = writes + 1
    /\ writers' = IF ~ResourceOwnership(ProjectsOf(u), id)
                  THEN Respond(c, StatusForbidden)
                  ELSE IF NameTaken(projects, ProjectsOf(u), body.name, id)
                  THEN Respond(c, StatusConflict)
                  ELSE [writers EXCEPT ![c] =
                           WFrame("update_project", u, id, body, projects[id])]
    /\ UNCHANGED <<now, ticks, dbUp, outages, tasks, categories, projects, req, resp>>

\* the row UpdateProject saves: the status only when the body gives one
UpdatedProject(row, body) ==
    [row EXCEPT !.name = body.name,
                !.status = IF body.status # "" THEN body.status ELSE @]

UpdateProject_Save(c) ==
    /\ writers[c].kind = "update_project"
    /\ \E o \in SaveRowOutcomes(projects, writers[c].id,
                                UpdatedProject(writers[c].row, writers[c].body)) :
          /\ projects' = o.table
          /\ writers' = Respond(c, o.code)
    /\ UNCHANGED <<now, ticks, dbUp, outages, tasks, categories, req, resp, writes>>

DeleteProject_Count(c, u, id, force) ==
    /\ writers[c].kind = "idle" /\ writes < MaxWrites
    /\ writes' = writes + 1
    /\ LET taskCount == Count({k \in TasksOf(u) : tasks[k].project_id = id})
       IN  writers' =
               IF ~ResourceOwnership(ProjectsOf(u), id)
               THEN Respond(c, StatusForbidden)
               ELSE IF taskCount > 0 /\ force # "true"
               THEN Respond(c, StatusConflict)
               ELSE [writers EXCEPT ![c] =
                        WFrame(IF taskCount > 0 THEN "clear_project"
                               ELSE "delete_project", u, id, <<>>, projects[id])]
    /\ UNCHANGED <<now, ticks, dbUp, outages, tasks, categories, projects, req, resp>>

\* Where("project_id = ? AND user_id = ?", id, u).Update("project_id", nil)
DeleteProject_Clear(c) ==
    /\ writers[c].kind = "clear_project"
    /\ IF dbUp
       THEN /\ tasks' = [k \in DOMAIN tasks |->
                            IF k \in TasksOf(writers[c].user)
                               /\ tasks[k].project_id = writers[c].id
                            THEN [tasks[k] EXCEPT !.project_id = 0] ELSE tasks[k]]
            /\ writers' = [writers EXCEPT ![c].kind = "delete_project"]
       ELSE /\ tasks' = tasks
            /\ writers' = Respond(c, StatusInternalServerError)
    /\ UNCHANGED <<now, ticks, dbUp, outages, categories, projects, req, resp, writes>>

\* pc.DB.Delete(&project): the soft delete of the row read
DeleteProject_Delete(c) ==
    /\ writers[c].kind = "delete_project"
    /\ IF dbUp
       THEN /\ projects' = [projects EXCEPT ![writers[c].id].deleted = TRUE]
            /\ writers' = Respond(c, StatusOK)
       ELSE /\ projects' = projects
            /\ writers' = Respond(c, StatusInternalServerError)
    /\ UNCHANGED <<now, ticks, dbUp, outages, tasks, categories, req, resp, writes>>

(***************************************************************************)
(* The environment: the wall clock advances, the store becomes unreachable *)
(* and reachable again.                                                    *)
(***************************************************************************)
TickSteps == {Second}

Tick ==
    /\ ticks < MaxTicks
    /\ \E d \in TickSteps : now' = Add(now, d)
    /\ ticks' = ticks + 1
    /\ UNCHANGED <<writers, writes, dbUp, outages, tasks, categories, projects, req, resp>>

StoreFails ==
    /\ dbUp /\ outages < MaxOutages
    /\ dbUp' = FALSE
    /\ outages' = outages + 1
    /\ UNCHANGED <<writers, writes, now, ticks, tasks, categories, projects, req, resp>>

\* an outage lasts at least to the end of the request in flight
StoreRecovers ==
    /\ ~dbUp /\ req.kind = "idle"
    /\ dbUp' = TRUE
    /\ UNCHANGED <<writers, writes, now, ticks, outages, tasks, categories, projects, req, resp>>

(***************************************************************************)
(* Initial states: a store as CRUD requests of two users can have left it  *)
(* and a wall clock not earlier than any timestamp in it.                  *)
(***************************************************************************)
Feb26 == DaysFromCivil(2024, 2, 26)   \* a Monday
Feb29 == DaysFromCivil(2024, 2, 29)
Mar1  == DaysFromCivil(2024, 3, 1)
Mar2  == DaysFromCivil(2024, 3, 2)
Mar3  == DaysFromCivil(2024, 3, 3)    \* a Sunday
Mar6  == DaysFromCivil(2024, 3, 6)    \* a Wednesday
Mar9  == DaysFromCivil(2024, 3, 9)    \* a Saturday

At(h, m, sec, ms) == h * Hour + m * 60 * Second + sec * Second + ms

StartTimes == {Time(Mar3, At(23, 59, 59, 0)), Time(Mar6, At(12, 0, 0, 0)),
               Time(Mar9, At(23, 59, 59, 0))}

\* the task rows a store is drawn from, by id
TaskRows ==
    <<TaskRow(1, "completed", "high", Time(Feb26, At(23, 59, 59, 0)),
              Time(Mar3, At(10, 0, 0, 0)), Time(Mar3, At(18, 0, 0, 0)), 1, 1, FALSE),
      TaskRow(1, "completed", "high", Time(Mar3, At(9, 0, 0, 0)),
              Time(Mar3, At(11, 0, 0, 0)), NilTime, 1, 0, FALSE),
      TaskRow(1, "pending", "low", Time(Mar3, At(9, 30, 0, 0)),
              NilTime, Time(Mar1, At(0, 0, 0, 0)), 0, 1, FALSE),
      TaskRow(2, "completed", "medium", Time(Mar3, At(8, 0, 0, 0)),
              Time(Mar3, At(12, 0, 0, 0)), NilTime, 3, 3, FALSE),
      TaskRow(1, "completed", "urgent", Time(Mar2, At(8, 0, 0, 0)),
              Time(Mar3, At(8, 0, 0, 0)), NilTime, 1, 1, TRUE),
      TaskRow(1, "in_progress", "medium", Time(Feb29, At(23, 59, 59, 500)),
              NilTime, Time(Mar6, At(9, 0, 0, 0)), 1, 0, FALSE),
      TaskRow(1, "completed", "low", Time(Mar2, At(23, 59, 59, 500)),
              Time(Mar2, At(23, 59, 59, 700)), NilTime, 0, 2, FALSE)>>

\* the stores of at most MaxTasks rows
Stores ==
    {[id \in ids |-> TaskRows[id]] :
        ids \in {S \in SUBSET (1..Len(TaskRows)) : Cardinality(S) <= MaxTasks}}

CategoryRows ==
    <<[name |-> "work", user_id |-> 1, deleted |-> FALSE],
      [name |-> "home", user_id |-> 1, deleted |-> FALSE],
      [name |-> "work", user_id |-> 2, deleted |-> FALSE],
      [name |-> "old",  user_id |-> 1, deleted |-> TRUE]>>

ProjectRows ==
    <<[name |-> "alpha", status |-> "active",   user_id |-> 1, deleted |-> FALSE],
      [name |-> "beta",  status |-> "archived", user_id |-> 1, deleted |-> FALSE],
      [name |-> "gamma", status |-> "active",   user_id |-> 2, deleted |-> FALSE]>>

Init ==
    /\ now = Time(Mar3, At(23, 59, 59, 0))
    /\ ticks = 0
    /\ dbUp = TRUE
    /\ outages = 0
    /\ tasks \in Stores
    /\ categories = CategoryRows
    /\ projects = ProjectRows
    /\ req = Idle
    /\ resp = NoResp
    /\ writers = [c \in Conns |-> WIdle]
    /\ writes = 0

(***************************************************************************)
(* The query strings the requests are made with.                           *)
(***************************************************************************)
DaysParams ==
    {Absent, Given(<<"1">>), Given(<<"3">>), Given(<<"3", "0">>),
     Given(<<"3", "1">>), Given(<<"0">>), Given(<<"-", "1">>),
     Given(<<"a", "b", "c">>), Given(<<>>), Given(<<"+", "2">>),
     Given(<<"9", "9", "9">>)}

WeeksParams ==
    {Absent, Given(<<"1">>), Given(<<"3">>), Given(<<"1", "2">>),
     Given(<<"1", "3">>), Given(<<"0">>), Given(<<"x">>), Given(<<>>)}

MonthParams ==
    {Absent,
     Given(<<"2", "0", "2", "4", "-", "0", "2">>),
     Given(<<"2", "0", "2", "3", "-", "0", "2">>),
     Given(<<"2", "0", "2", "3", "-", "1", "2">>),
     Given(<<"2", "0", "2", "4", "-", "0", "4">>),
     Given(<<"1", "9", "0", "0", "-", "0", "2">>),
     Given(<<"2", "0", "2", "4", "-", "1", "3">>),
     Given(<<"2", "0", "2", "4", "-", "0", "0">>),
     Given(<<"b", "a", "d">>),
     Given(<<"2", "0", "2", "4", "-", "1">>),
     Given(<<"2", "0", "2", "4", "-", "0", "2", "-", "0", "1">>),
     Given(<<"2", "4", "-", "0", "2">>),
     Given(<<>>)}

\* the steps of the handlers in flight
Step ==
    \/ GetDailyStats_Loop
    \/ GetWeeklyStats_Loop
    \/ GetProductivityStats_PriorityTotal
    \/ GetProductivityStats_PriorityCompleted
    \/ GetProductivityStats_Loop
    \/ GetProductivityStats_Categories
    \/ GetProductivityStats_CategoryTotal
    \/ GetProductivityStats_CategoryCompleted
    \/ GetProductivityStats_End
    \/ GetMonthlyReport_Loop
    \/ GetMonthlyReport_Projects
    \/ GetMonthlyReport_Total
    \/ GetMonthlyReport_Completed

\* every report over every store, requested with its default parameter and
\* with one given parameter, while the wall clock advances
Next ==
    \/ \E u \in Users : GetOverview(u)
    \/ \E u \in Users, p \in {Absent, Given(<<"2">>)} : GetDailyStats_Begin(u, p)
    \/ \E u \in Users, p \in {Absent, Given(<<"3">>)} : GetWeeklyStats_Begin(u, p)
    \/ \E u \in Users : GetProductivityStats_Begin(u)
    \/ \E u \in Users, p \in {Absent, Given(<<"b", "a", "d">>)} :
           GetMonthlyReport_Begin(u, p)
    \/ Step
    \/ Tick

Spec == Init /\ [][Next]_vars

\* every report over one store, requested with every query string, while the
\* wall clock advances and the store becomes unreachable and reachable again
InitParams ==
    /\ now \in StartTimes
    /\ ticks = 0
    /\ dbUp = TRUE
    /\ outages = 0
    /\ tasks = [id \in {1, 2} |-> TaskRows[id]]
    /\ categories = CategoryRows
    /\ projects = ProjectRows
    /\ req = Idle
    /\ resp = NoResp
    /\ writers = [c \in Conns |-> WIdle]
    /\ writes = 0

NextParams ==
    \/ GetOverview(1)
    \/ \E p \in DaysParams : GetDailyStats_Begin(1, p)
    \/ \E p \in WeeksParams : GetWeeklyStats_Begin(1, p)
    \/ GetProductivityStats_Begin(1)
    \/ \E p \in MonthParams : GetMonthlyReport_Begin(1, p)
    \/ Step
    \/ Tick
    \/ StoreFails
    \/ StoreRecovers

SpecParams == InitParams /\ [][NextParams]_vars

\* the reports of user 1 while user 2 writes tasks, categories and projects,
\* with the two-step requests on connection 1 and the batches on connection 2
OtherBodies == {TaskRequest("", NilTime, 3, 3),
                TaskRequest("high", Time(Mar1, At(0, 0, 0, 0)), 0, 0)}

InitOwners ==
    /\ now = Time(Mar3, At(23, 59, 59, 0))
    /\ ticks = 0
    /\ dbUp = TRUE
    /\ outages = 0
    /\ tasks = [id \in {1, 3, 4} |-> TaskRows[id]]
    /\ categories = CategoryRows
    /\ projects = ProjectRows
    /\ req = Idle
    /\ resp = NoResp
    /\ writers = [c \in Conns |-> WIdle]
    /\ writes = 0

NextOwners ==
    \/ GetOverview(1)
    \/ GetDailyStats_Begin(1, Given(<<"2">>))
    \/ GetWeeklyStats_Begin(1, Given(<<"1">>))
    \/ GetProductivityStats_Begin(1)
    \/ GetMonthlyReport_Begin(1, Absent)
    \/ Step
    \/ \E b \in OtherBodies : CreateTask_Check(1, 2, b)
    \/ CreateTask_Create(1)
    \/ \E st \in {"completed", "pending"} :
           BatchUpdateTaskStatus(2, 2, DOMAIN tasks, st)
    \/ BatchDeleteTasks(2, 2, DOMAIN tasks)
    \/ \E name \in {"work", "misc"} : CreateCategory_Check(1, 2, CategoryRequest(name))
    \/ CreateCategory_Create(1)
    \/ \E name \in {"gamma", "delta"} :
           CreateProject_Check(1, 2, ProjectRequest(name, ""))
    \/ CreateProject_Create(1)

SpecOwners == InitOwners /\ [][NextOwners]_vars

\* the six task requests in every interleaving, while the wall clock advances
TaskBodies == {TaskRequest("", NilTime, 0, 0),
               TaskRequest("high", Time(Mar2, At(0, 0, 0, 0)), 1, 1)}

InitTasks ==
    /\ now = Time(Mar3, At(23, 59, 59, 0))
    /\ ticks = 0
    /\ dbUp = TRUE
    /\ outages = 0
    /\ tasks = [id \in {2, 3} |-> TaskRows[id]]
    /\ categories = CategoryRows
    /\ projects = ProjectRows
    /\ req = Idle
    /\ resp = NoResp
    /\ writers = [c \in Conns |-> WIdle]
    /\ writes = 0

NextTasks ==
    \/ \E c \in Conns, b \in TaskBodies : CreateTask_Check(c, 1, b)
    \/ \E c \in Conns : CreateTask_Create(c)
    \/ \E c \in Conns, id \in DOMAIN tasks, b \in TaskBodies : UpdateTask_Read(c, 1, id, b)
    \/ \E c \in Conns : UpdateTask_Save(c)
    \/ \E c \in Conns, id \in DOMAIN tasks, st \in Statuses :
           UpdateTaskStatus_Read(c, 1, id, TaskStatusRequest(st))
    \/ \E c \in Conns : UpdateTaskStatus_Save(c)
    \/ \E c \in Conns, ids \in SUBSET (DOMAIN tasks) \ {{}}, st \in Statuses :
           BatchUpdateTaskStatus(c, 1, ids, st)
    \/ \E c \in Conns, id \in DOMAIN tasks : DeleteTask(c, 1, id)
    \/ \E c \in Conns, ids \in SUBSET (DOMAIN tasks) \ {{}} : BatchDeleteTasks(c, 1, ids)
    \/ Tick

SpecTasks == InitTasks /\ [][NextTasks]_vars

\* the daily, weekly and monthly report of user 1 between and during the
\* status changes of the tasks, single ones on connection 1 and batches on
\* connection 2
NextReopen ==
    \/ \E id \in DOMAIN tasks, st \in Statuses :
           UpdateTaskStatus_Read(1, 1, id, TaskStatusRequest(st))
    \/ UpdateTaskStatus_Save(1)
    \/ \E st \in Statuses : BatchUpdateTaskStatus(2, 1, DOMAIN tasks, st)
    \/ GetDailyStats_Begin(1, Given(<<"1">>))
    \/ GetDailyStats_Loop
    \/ GetWeeklyStats_Begin(1, Given(<<"1">>))
    \/ GetWeeklyStats_Loop
    \/ GetMonthlyReport_Begin(1, Absent)
    \/ GetMonthlyReport_Loop
    \/ GetMonthlyReport_Projects
    \/ GetMonthlyReport_Total
    \/ GetMonthlyReport_Completed

SpecReopen == InitTasks /\ [][NextReopen]_vars

\* the monthly report of the current month and of February 2024 over stores
\* with tasks created in the last second of a day, and with a deleted project
MonthStores == {st \in Stores : DOMAIN st \subseteq {1, 6, 7}}

InitMonth ==
    /\ now = Time(Mar3, At(23, 59, 59, 0))
    /\ ticks = 0
    /\ dbUp = TRUE
    /\ outages = 0
    /\ tasks \in MonthStores
    /\ categories = CategoryRows
    /\ projects = Append(ProjectRows, [name |-> "omega", status |-> "active",
                                       user_id |-> 1, deleted |-> TRUE])
    /\ req = Idle
    /\ resp = NoResp
    /\ writers = [c \in Conns |-> WIdle]
    /\ writes = 0

NextMonth ==
    \/ \E u \in Users, p \in {Absent, Given(<<"2", "0", "2", "4", "-", "0", "2">>)} :
           GetMonthlyReport_Begin(u, p)
    \/ GetMonthlyReport_Loop
    \/ GetMonthlyReport_Projects
    \/ GetMonthlyReport_Total
    \/ GetMonthlyReport_Completed

SpecMonth == InitMonth /\ [][NextMonth]_vars

\* the productivity and the monthly report of user 1 while user 1 creates a
\* task and completes all tasks
InitSnapshot ==
    /\ now = Time(Mar3, At(23, 59, 59, 0))
    /\ ticks = 0
    /\ dbUp = TRUE
    /\ outages = 0
    /\ tasks = [id \in {1, 2, 3} |-> TaskRows[id]]
    /\ categories = CategoryRows
    /\ projects = ProjectRows
    /\ req = Idle
    /\ resp = NoResp
    /\ writers = [c \in Conns |-> WIdle]
    /\ writes = 0

NextSnapshot ==
    \/ GetProductivityStats_Begin(1)
    \/ GetMonthlyReport_Begin(1, Absent)
    \/ GetProductivityStats_PriorityTotal
    \/ GetProductivityStats_PriorityCompleted
    \/ GetProductivityStats_Loop
    \/ GetProductivityStats_Categories
    \/ GetProductivityStats_CategoryTotal
    \/ GetProductivityStats_CategoryCompleted
    \/ GetProductivityStats_End
    \/ GetMonthlyReport_Loop
    \/ GetMonthlyReport_Projects
    \/ GetMonthlyReport_Total
    \/ GetMonthlyReport_Completed
    \/ CreateTask_Check(1, 1, TaskRequest("high", NilTime, 1, 1))
    \/ CreateTask_Create(1)
    \/ BatchUpdateTaskStatus(2, 1, DOMAIN tasks, "completed")

SpecSnapshot == InitSnapshot /\ [][NextSnapshot]_vars

\* the weekly report requested on a Wednesday at noon over stores with a task
\* created on the Monday morning of that week
Mar4 == DaysFromCivil(2024, 3, 4)     \* a Monday

WeekRows ==
    <<TaskRows[1], TaskRows[2],
      TaskRow(1, "pending", "medium", Time(Mar4, At(9, 0, 0, 0)), NilTime, NilTime,
              0, 0, FALSE)>>

InitWeek ==
    /\ now = Time(Mar6, At(12, 0, 0, 0))
    /\ ticks = 0
    /\ dbUp = TRUE
    /\ outages = 0
    /\ tasks \in {[id \in ids |-> WeekRows[id]] :
                    ids \in {S \in SUBSET (1..Len(WeekRows)) : Cardinality(S) <= MaxTasks}}
    /\ categories = CategoryRows
    /\ projects = ProjectRows
    /\ req = Idle
    /\ resp = NoResp
    /\ writers = [c \in Conns |-> WIdle]
    /\ writes = 0

NextWeek ==
    \/ \E p \in {Absent, Given(<<"1">>), Given(<<"3">>)} : GetWeeklyStats_Begin(1, p)
    \/ GetWeeklyStats_Loop
    \/ Tick

SpecWeek == InitWeek /\ [][NextWeek]_vars

\* the requests of user 1 that set and that remove the category and the
\* project of a task, in every interleaving
Forces == {"true", ""}

NextRefs ==
    \/ \E c \in Conns, b \in TaskBodies : CreateTask_Check(c, 1, b)
    \/ \E c \in Conns : CreateTask_Create(c)
    \/ \E c \in Conns, id \in DOMAIN tasks, b \in TaskBodies : UpdateTask_Read(c, 1, id, b)
    \/ \E c \in Conns : UpdateTask_Save(c)
    \/ \E c \in Conns, id \in DOMAIN categories, force \in Forces :
           DeleteCategory_Count(c, 1, id, force)
    \/ \E c \in Conns : DeleteCategory_Clear(c)
    \/ \E c \in Conns : DeleteCategory_Delete(c)
    \/ \E c \in Conns, id \in DOMAIN projects, force \in Forces :
           DeleteProject_Count(c, 1, id, force)
    \/ \E c \in Conns : DeleteProject_Clear(c)
    \/ \E c \in Conns : DeleteProject_Delete(c)

SpecRefs == InitTasks /\ [][NextRefs]_vars

\* the requests of user 1 that name a category or a project, in every
\* interleaving
CategoryBodies == {CategoryRequest("work"), CategoryRequest("misc")}
ProjectBodies == {ProjectRequest("alpha", ""), ProjectRequest("delta", "completed")}

NextNames ==
    \/ \E c \in Conns, b \in CategoryBodies : CreateCategory_Check(c, 1, b)
    \/ \E c \in Conns : CreateCategory_Create(c)
    \/ \E c \in Conns, id \in DOMAIN categories, b \in CategoryBodies :
           UpdateCategory_Read(c, 1, id, b)
    \/ \E c \in Conns : UpdateCategory_Save(c)
    \/ \E c \in Conns, b \in ProjectBodies : CreateProject_Check(c, 1, b)
    \/ \E c \in Conns : CreateProject_Create(c)
    \/ \E c \in Conns, id \in DOMAIN projects, b \in ProjectBodies :
           UpdateProject_Read(c, 1, id, b)
    \/ \E c \in Conns : UpdateProject_Save(c)

SpecNames == InitTasks /\ [][NextNames]_vars

\* CreateTask and UpdateTask of both users with bodies that name a category
\* or a project of user 1, of user 2 and of nobody, in every interleaving
RefBodies == {TaskRequest("low", NilTime, 3, 0), TaskRequest("low", NilTime, 0, 3),
              TaskRequest("low", NilTime, 9, 9), TaskRequest("low", NilTime, 2, 1)}

NextOwnRefs ==
    \/ \E c \in Conns, u \in Users, b \in RefBodies : CreateTask_Check(c, u, b)
    \/ \E c \in Conns : CreateTask_Create(c)
    \/ \E c \in Conns, u \in Users, id \in DOMAIN tasks, b \in RefBodies :
           UpdateTask_Read(c, u, id, b)
    \/ \E c \in Conns : UpdateTask_Save(c)

SpecOwnRefs == InitOwners /\ [][NextOwnRefs]_vars

\* every request of user 2 that writes, on every id of the three tables, its
\* own and those of user 1, in every interleaving
NextIntruder ==
    \/ \E c \in Conns, b \in OtherBodies : CreateTask_Check(c, 2, b)
    \/ \E c \in Conns : CreateTask_Create(c)
    \/ \E c \in Conns, id \in DOMAIN tasks, b \in OtherBodies : UpdateTask_Read(c, 2, id, b)
    \/ \E c \in Conns : UpdateTask_Save(c)
    \/ \E c \in Conns, id \in DOMAIN tasks, st \in {"completed", "pending"} :
           UpdateTaskStatus_Read(c, 2, id, TaskStatusRequest(st))
    \/ \E c \in Conns : UpdateTaskStatus_Save(c)
    \/ \E c \in Conns, id \in DOMAIN tasks : DeleteTask(c, 2, id)
    \/ \E c \in Conns, ids \in SUBSET (DOMAIN tasks) \ {{}}, st \in {"completed", "pending"} :
           BatchUpdateTaskStatus(c, 2, ids, st)
    \/ \E c \in Conns, ids \in SUBSET (DOMAIN tasks) \ {{}} : BatchDeleteTasks(c, 2, ids)
    \/ \E c \in Conns, id \in DOMAIN categories, b \in CategoryBodies :
           UpdateCategory_Read(c, 2, id, b)
    \/ \E c \in Conns : UpdateCategory_Save(c)
    \/ \E c \in Conns, id \in DOMAIN categories, force \in Forces :
           DeleteCategory_Count(c, 2, id, force)
    \/ \E c \in Conns : DeleteCategory_Clear(c)
    \/ \E c \in Conns : DeleteCategory_Delete(c)
    \/ \E c \in Conns, id \in DOMAIN projects, b \in ProjectBodies :
           UpdateProject_Read(c, 2, id, b)
    \/ \E c \in Conns : UpdateProject_Save(c)
    \/ \E c \in Conns, id \in DOMAIN projects, force \in Forces :
           DeleteProject_Count(c, 2, id, force)
    \/ \E c \in Conns : DeleteProject_Clear(c)
    \/ \E c \in Conns : DeleteProject_Delete(c)

SpecIntruder == InitOwners /\ [][NextIntruder]_vars

(***************************************************************************)
(* Properties.                                                             *)
(***************************************************************************)
\* the day number of a "2006-01-02" label
LabelDay(label) ==
    DaysFromCivil(DigitsValue(SubSeq(label, 1, 4)), DigitsValue(SubSeq(label, 6, 7)),
                  DigitsValue(SubSeq(label, 9, 10)))

Answered(kind) == resp.kind = kind /\ resp.code = StatusOK

\* the days parameters inside 1..30 and the number each one stands for
GoodDays == {<<Given(<<"1">>), 1>>, <<Given(<<"3">>), 3>>, <<Given(<<"3", "0">>), 30>>}

\* C1: a daily report requested with days in 1..30 holds exactly days entries,
\* oldest first, labelled with consecutive calendar dates that end at the date
\* of the response.
C1_DailyConsecutiveDates ==
    \A g \in GoodDays :
        (Answered("daily") /\ resp.param = g[1]) =>
            /\ Len(resp.data) = g[2]
            /\ \A k \in 1..Len(resp.data) :
                  LabelDay(resp.data[k].date) = DayOf(resp.timestamp) - (g[2] - k)

\* the weeks parameters inside 1..12 and the number each one stands for
GoodWeeks == {<<Given(<<"1">>), 1>>, <<Given(<<"3">>), 3>>, <<Given(<<"1", "2">>), 12>>}

\* the two dates of a week label
LabelStart(week) == LabelDay(SubSeq(week, 1, 10))
LabelEnd(week) == LabelDay(SubSeq(week, Len(week) - 9, Len(week)))

\* C2: a weekly report requested with weeks in 1..12 holds exactly weeks
\* entries; every entry runs from a Monday to the Sunday six days later, and
\* the Mondays are strictly increasing.
C2_WeeklyMondayToSunday ==
    \A g \in GoodWeeks :
        (Answered("weekly") /\ resp.param = g[1]) =>
            /\ Len(resp.data) = g[2]
            /\ \A k \in 1..Len(resp.data) :
                  /\ Weekday(Time(LabelStart(resp.data[k].week), 0)) = 1
                  /\ Weekday(Time(LabelEnd(resp.data[k].week), 0)) = 0
                  /\ LabelEnd(resp.data[k].week) = LabelStart(resp.data[k].week) + 6
            /\ \A k \in 1..(Len(resp.data) - 1) :
                  LabelStart(resp.data[k].week) < LabelStart(resp.data[k + 1].week)

\* a 12-week report during which the clock passed from Saturday to Sunday
C2_Witness ==
    /\ Answered("weekly") /\ resp.param = Given(<<"1", "2">>)
    /\ Weekday(resp.t0) = 6 /\ Weekday(resp.timestamp) = 0
    /\ resp.nq = 24

RECURSIVE SumCreated(_)
SumCreated(entries) ==
    IF entries = <<>> THEN 0
    ELSE entries[1].tasks_created + SumCreated(Tail(entries))

\* C3: the windows of one weekly report do not overlap, so the entries together
\* count no task of the owner twice as created.
C3_WeeklyWindowsDisjoint ==
    Answered("weekly") => SumCreated(resp.data) <= Cardinality(TasksOf(resp.user))

InPercentRange(rate) == RatLeq(Float(0), rate) /\ RatLeq(rate, Float(100))

\* C4: every rate of the productivity report and of the monthly report lies in
\* [0, 100].
C4_RatesWithinPercentRange ==
    /\ Answered("productivity") =>
          /\ InPercentRange(resp.data.overview.completion_rate)
          /\ \A k \in 1..Len(Priorities) :
                InPercentRange(resp.data.priority_completion_rates[k])
          /\ \A k \in 1..Len(resp.data.recent_productivity) :
                InPercentRange(resp.data.recent_productivity[k].efficiency)
          /\ \A k \in 1..Len(resp.data.category_efficiency) :
                InPercentRange(resp.data.category_efficiency[k].completion_rate)
          /\ InPercentRange(resp.data.today.completion_rate)
    /\ Answered("monthly") =>
          /\ InPercentRange(resp.data.summary.completion_rate)
          /\ \A k \in 1..Len(resp.data.project_progress) :
                InPercentRange(resp.data.project_progress[k].progress)

\* the shared policy of section 4.3
PolicyHolds(rate, numerator, denominator) ==
    IF denominator > 0
    THEN rate.den > 0 /\ rate.num * denominator = numerator * 100 * rate.den
    ELSE rate.den > 0 /\ rate.num = 0

\* C5: every completion rate and progress value is numerator/denominator*100
\* when the denominator is positive and 0.0 when it is 0.
C5_RatesFollowSharedPolicy ==
    /\ Answered("productivity") =>
          /\ PolicyHolds(resp.data.overview.completion_rate,
                         resp.data.overview.completed_tasks,
                         resp.data.overview.total_tasks)
          /\ \A k \in 1..Len(Priorities) :
                PolicyHolds(resp.data.priority_completion_rates[k],
                            resp.locals.priority_completed[k],
                            resp.locals.priority_totals[k])
          /\ \A k \in 1..Len(resp.data.category_efficiency) :
                PolicyHolds(resp.data.category_efficiency[k].completion_rate,
                            resp.data.category_efficiency[k].completed_tasks,
                            resp.data.category_efficiency[k].total_tasks)
          /\ PolicyHolds(resp.data.today.completion_rate,
                         resp.data.today.completed_tasks,
                         resp.data.today.total_tasks)
    /\ Answered("monthly") =>
          /\ PolicyHolds(resp.data.summary.completion_rate,
                         resp.data.summary.tasks_completed,
                         resp.data.summary.tasks_created)
          /\ \A k \in 1..Len(resp.data.project_progress) :
                PolicyHolds(resp.data.project_progress[k].progress,
                            resp.data.project_progress[k].completed,
                            resp.data.project_progress[k].total_tasks)

\* a productivity report with a category without tasks next to one whose tasks
\* are all completed, and a completion rate strictly between 0 and 100
C5_Witness ==
    /\ Answered("productivity")
    /\ \E k \in 1..Len(resp.data.category_efficiency) :
          /\ resp.data.category_efficiency[k].total_tasks = 0
          /\ RatEq(resp.data.category_efficiency[k].completion_rate, Float(0))
    /\ \E k \in 1..Len(resp.data.category_efficiency) :
          /\ resp.data.category_efficiency[k].total_tasks > 0
          /\ RatEq(resp.data.category_efficiency[k].completion_rate, Float(100))
    /\ RatEq(resp.data.overview.completion_rate, Float(50))

\* C6: a day's efficiency is 100 when nothing was created and something was
\* completed, 0 when nothing was created and nothing completed, and
\* completed/created*100 otherwise.
C6_EfficiencyRule ==
    /\ RatEq(Efficiency(0, 5), Float(100))
    /\ RatEq(Efficiency(0, 0), Float(0))
    /\ RatEq(Efficiency(10, 5), Float(50))
    /\ Answered("productivity") =>
          \A k \in 1..Len(resp.data.recent_productivity) :
              LET e == resp.data.recent_productivity[k]
              IN  /\ e.efficiency.den > 0
                  /\ (e.created = 0 /\ e.completed > 0) =>
                         RatEq(e.efficiency, Float(100))
                  /\ (e.created = 0 /\ e.completed = 0) =>
                         RatEq(e.efficiency, Float(0))
                  /\ e.created > 0 =>
                         e.efficiency.num * e.created = e.completed * 100 * e.efficiency.den

\* a trend with a day of completions without creations and a day of creations
C6_Witness ==
    /\ Answered("productivity")
    /\ \E k \in 1..Len(resp.data.recent_productivity) :
          /\ resp.data.recent_productivity[k].created = 0
          /\ resp.data.recent_productivity[k].completed > 0
    /\ \E k \in 1..Len(resp.data.recent_productivity) :
          resp.data.recent_productivity[k].created > 0

\* the length of month m of year y in the Gregorian calendar
IsLeapYear(y) == y % 4 = 0 /\ (y % 100 # 0 \/ y % 400 = 0)
CalendarDays(y, m) ==
    IF m = 2 THEN (IF IsLeapYear(y) THEN 29 ELSE 28)
    ELSE IF m \in {4, 6, 9, 11} THEN 30
    ELSE 31

\* C7: the daily_trends of a monthly report hold one entry per calendar day of
\* the month, numbered 1..N in ascending order.
C7_MonthlyTrendLength ==
    Answered("monthly") =>
        LET y == DigitsValue(SubSeq(resp.data.month, 1, 4))
            m == DigitsValue(SubSeq(resp.data.month, 6, 7))
        IN  /\ Len(resp.data.daily_trends) = CalendarDays(y, m)
            /\ \A k \in 1..Len(resp.data.daily_trends) :
                  resp.data.daily_trends[k].day = k

\* the report of February 2024 with its 29 days
C7_Witness ==
    /\ Answered("monthly")
    /\ resp.param = Given(<<"2", "0", "2", "4", "-", "0", "2">>)
    /\ Len(resp.data.daily_trends) = 29

\* month parameters that are no YYYY-MM key
BadMonths ==
    {Given(<<"2", "0", "2", "4", "-", "1", "3">>),
     Given(<<"2", "0", "2", "4", "-", "0", "0">>),
     Given(<<"b", "a", "d">>),
     Given(<<"2", "0", "2", "4", "-", "1">>),
     Given(<<"2", "0", "2", "4", "-", "0", "2", "-", "0", "1">>),
     Given(<<"2", "4", "-", "0", "2">>),
     Given(<<>>)}

\* C8: a monthly request whose month parameter is no YYYY-MM key is answered
\* with a client error and no data, before any store query, and is never
\* processed as a report of some month.
C8_BadMonthRejected ==
    /\ (resp.kind = "monthly" /\ resp.param \in BadMonths) =>
          /\ resp.code = StatusBadRequest
          /\ resp.error
          /\ resp.data = <<>>
          /\ resp.nq = 0
    /\ req.kind = "monthly" => req.param \notin BadMonths

C8_Witness ==
    /\ resp.kind = "monthly"
    /\ resp.param = Given(<<"2", "0", "2", "4", "-", "1", "3">>)
    /\ resp.code = StatusBadRequest

\* count parameters that are not numeric or lie outside the range
BadDays == {Given(<<"3", "1">>), Given(<<"0">>), Given(<<"-", "1">>),
            Given(<<"a", "b", "c">>), Given(<<>>), Given(<<"9", "9", "9">>)}
BadWeeks == {Given(<<"1", "3">>), Given(<<"0">>), Given(<<"x">>), Given(<<>>)}

\* C9: daily and weekly requests are never answered with an error; a days
\* parameter that is not a number in 1..30 gives 7 entries and a weeks
\* parameter that is not a number in 1..12 gives 4.
C9_CountParameterDefaults ==
    /\ resp.kind \in {"daily", "weekly"} => resp.code = StatusOK /\ ~resp.error
    /\ (resp.kind = "daily" /\ resp.param \in BadDays) => Len(resp.data) = 7
    /\ (resp.kind = "weekly" /\ resp.param \in BadWeeks) => Len(resp.data) = 4

C9_Witness ==
    /\ Answered("daily") /\ resp.param = Given(<<"3", "1">>)
    /\ Len(resp.data) = 7

\* C10: a report during which a store query failed ends in a server error
\* without data.
C10_StoreFailureIsAnError ==
    (resp.kind # "none" /\ resp.nfail > 0) => (resp.code >= 500 /\ resp.data = <<>>)

\* C11: overdue_tasks of the productivity report is the number of the owner's
\* tasks that are not completed, have a due date and whose due date lies before
\* the time of the report; completed tasks and tasks without a due date are
\* not counted.
C11_OverdueCount ==
    Answered("productivity") =>
        resp.data.overview.overdue_tasks =
            Cardinality({id \in DOMAIN tasks :
                            /\ tasks[id].user_id = resp.user /\ ~tasks[id].deleted
                            /\ tasks[id].status # "completed"
                            /\ tasks[id].due_date # NilTime
                            /\ TimeLess(tasks[id].due_date, resp.timestamp)})

\* one overdue task counted next to a completed task whose due date has passed
C11_Witness ==
    /\ Answered("productivity")
    /\ resp.data.overview.overdue_tasks = 1
    /\ \E id \in DOMAIN tasks :
          /\ tasks[id].user_id = resp.user /\ ~tasks[id].deleted
          /\ tasks[id].status = "completed"
          /\ tasks[id].due_date # NilTime
          /\ TimeLess(tasks[id].due_date, resp.timestamp)

\* the reports as one evaluation over the store and the clock of a state
DailyReport(u, param) ==
    [k \in 1..DaysParam(param) |-> DailyEntry(u, DaysParam(param) - k)]
WeeklyReport(u, param) ==
    [k \in 1..WeeksParam(param) |-> WeeklyEntry(u, WeeksParam(param) - k)]
ProductivityReport(u) ==
    LET cats == CategoryList(u)
        base == [ProductivityBase(u) EXCEPT
                    !.priority_completion_rates =
                        [k \in 1..Len(Priorities) |->
                            PriorityRate(PriorityCompleted(u, Priorities[k]),
                                         PriorityTotal(u, Priorities[k]))],
                    !.avg_completion_time_hours = AvgCompletionTime(u),
                    !.category_efficiency =
                        [k \in 1..Len(cats) |->
                            CategoryEntry(cats[k], CategoryTotal(u, cats[k].id),
                                          CategoryCompleted(u, cats[k].id))]]
    IN  ProductivityData(base, [k \in 1..7 |-> ProductivityEntry(u, 7 - k)],
                         ProductivityTail(u))
MonthlyReport(u, param) ==
    LET monthStr == DefaultQuery(param, FormatMonth(now))
        month    == ParseMonth(monthStr).t
        n        == DaysInMonth(MonthEnd(MonthStart(month)))
    IN  MonthlyData(monthStr, MonthlySummary(u, month),
                    [k \in 1..n |-> DailyTrend(u, month, k)], ProjectProgressList(u))

\* C12: a report of user 1 does not depend on the data of other owners: it is
\* the very report the store gives after any writes user 2 has made since it
\* was requested, or while it was computed.
C12_OwnerIsolation ==
    /\ Answered("overview") => resp.data = Overview(resp.user)
    /\ Answered("daily") => resp.data = DailyReport(resp.user, resp.param)
    /\ Answered("weekly") => resp.data = WeeklyReport(resp.user, resp.param)
    /\ Answered("productivity") => resp.data = ProductivityReport(resp.user)
    /\ Answered("monthly") => resp.data = MonthlyReport(resp.user, resp.param)

\* a productivity report of user 1 that user 2's writes have followed: a task
\* of user 2 more, one of them completed, a category and a project more
C12_Witness ==
    /\ Answered("productivity") /\ resp.user = 1
    /\ writes = MaxWrites
    /\ \E id \in DOMAIN tasks : tasks[id].user_id = 2 /\ id \notin {1, 3, 4}
    /\ resp.data.overview.total_tasks = 2

\* C13: all date labels of one report derive from a single value of the clock:
\* the days of the daily report and of the 7-day trend follow each other
\* without a gap, and so do the Mondays of the weekly report, seven days apart.
C13_SingleClockReading ==
    /\ Answered("daily") =>
          \A k \in 1..(Len(resp.data) - 1) :
              LabelDay(resp.data[k + 1].date) = LabelDay(resp.data[k].date) + 1
    /\ Answered("productivity") =>
          \A k \in 1..(Len(resp.data.recent_productivity) - 1) :
              LabelDay(resp.data.recent_productivity[k + 1].date) =
                  LabelDay(resp.data.recent_productivity[k].date) + 1
    /\ Answered("weekly") =>
          \A k \in 1..(Len(resp.data) - 1) :
              LabelStart(resp.data[k + 1].week) = LabelStart(resp.data[k].week) + 7

\* the steps of the five report handlers
ReportSteps ==
    \/ \E u \in Users : GetOverview(u)
    \/ \E u \in Users, p \in DaysParams : GetDailyStats_Begin(u, p)
    \/ \E u \in Users, p \in WeeksParams : GetWeeklyStats_Begin(u, p)
    \/ \E u \in Users : GetProductivityStats_Begin(u)
    \/ \E u \in Users, p \in MonthParams : GetMonthlyReport_Begin(u, p)
    \/ Step

\* C14: no step of a report request changes the store: the tasks, categories
\* and projects and all their fields are after the step what they were before.
C14_ReportsLeaveStoreUnchanged ==
    [][ReportSteps => UNCHANGED <<tasks, categories, projects>>]_vars

\* a monthly report answered in a store that write requests have changed
C14_Witness ==
    /\ Answered("monthly") /\ resp.user = 1
    /\ writes = MaxWrites
    /\ tasks # [id \in {1, 3, 4} |-> TaskRows[id]]

\* C15: every stored task has completed_at set if and only if its status is
\* completed, whatever task requests have run and however they interleaved.
C15_CompletedAtIffCompleted ==
    \A id \in DOMAIN tasks :
        (tasks[id].completed_at # NilTime) <=> (tasks[id].status = "completed")

\* the completed task has been reopened and the pending one completed
C15_Witness ==
    /\ writes = MaxWrites
    /\ \A c \in Conns : writers[c].kind = "idle"
    /\ tasks[2].status # "completed" /\ tasks[2].completed_at = NilTime
    /\ tasks[3].status = "completed" /\ tasks[3].completed_at = now

\* the year and the month a monthly report is labelled with
ReportYear == DigitsValue(SubSeq(resp.data.month, 1, 4))
ReportMonth == DigitsValue(SubSeq(resp.data.month, 6, 7))

\* the owner's tasks created, or completed, in the month of the report
CreatedInMonth ==
    {id \in DOMAIN tasks :
        /\ tasks[id].user_id = resp.user /\ ~tasks[id].deleted
        /\ Year(tasks[id].created_at) = ReportYear
        /\ Month(tasks[id].created_at) = ReportMonth}
CompletedInMonth ==
    {id \in DOMAIN tasks :
        /\ tasks[id].user_id = resp.user /\ ~tasks[id].deleted
        /\ tasks[id].completed_at # NilTime
        /\ Year(tasks[id].completed_at) = ReportYear
        /\ Month(tasks[id].completed_at) = ReportMonth}

\* C16: the monthly tasks_created counts exactly the owner's tasks whose
\* created_at lies in the calendar month of the report, up to its last instant.
C16_MonthlyWindowWholeMonth ==
    Answered("monthly") =>
        resp.data.summary.tasks_created = Cardinality(CreatedInMonth)

RECURSIVE SumTrend(_, _)
SumTrend(entries, field) ==
    IF entries = <<>> THEN 0
    ELSE entries[1][field] + SumTrend(Tail(entries), field)

\* C17: the days of the monthly report partition the month: the created counts
\* of daily_trends add up to summary.tasks_created and the completed counts to
\* summary.tasks_completed.
C17_MonthlyDaysPartition ==
    Answered("monthly") =>
        /\ SumTrend(resp.data.daily_trends, "created") = resp.data.summary.tasks_created
        /\ SumTrend(resp.data.daily_trends, "completed") =
              resp.data.summary.tasks_completed

\* C18: project_progress of the monthly report holds one entry for every
\* non-deleted project of the requester, with or without tasks, and no other.
C18_ProjectProgressAllOwnProjects ==
    Answered("monthly") =>
        LET mine == {pid \in DOMAIN projects :
                        projects[pid].user_id = resp.user /\ ~projects[pid].deleted}
            pp   == resp.data.project_progress
        IN  /\ Len(pp) = Cardinality(mine)
            /\ \A pid \in mine :
                  Cardinality({k \in 1..Len(pp) :
                                  pp[k].project_name = projects[pid].name}) = 1

\* a report of user 1 with the project that has no task and the one that has
C18_Witness ==
    /\ Answered("monthly") /\ resp.user = 1
    /\ \E k \in 1..Len(resp.data.project_progress) :
          /\ resp.data.project_progress[k].project_name = "beta"
          /\ resp.data.project_progress[k].total_tasks = 0
    /\ \E k \in 1..Len(resp.data.project_progress) :
          /\ resp.data.project_progress[k].project_name = "alpha"
          /\ resp.data.project_progress[k].total_tasks = 1
    /\ \E pid \in DOMAIN projects : projects[pid].user_id = 1 /\ projects[pid].deleted

\* C19: the weekly windows are reached by walking back from now: no entry's
\* week starts after the day of the response, and the week of the last entry
\* holds a day on which the request was being served.
C19_WeeklyWindowsWalkBack ==
    Answered("weekly") =>
        /\ \A k \in 1..Len(resp.data) :
              LabelStart(resp.data[k].week) <= DayOf(resp.timestamp)
        /\ DayOf(resp.t0) <= LabelEnd(resp.data[Len(resp.data)].week)

\* the entry a loop step has just computed
LastEntry == IF req'.kind = "idle" THEN resp'.data[Len(resp'.data)]
             ELSE req'.acc[Len(req'.acc)]

\* the tasks of the requester that are completed and carry a completion time
\* on one of the days lo..hi
CompletedOn(lo, hi) ==
    {id \in DOMAIN tasks :
        /\ tasks[id].user_id = req.user /\ ~tasks[id].deleted
        /\ tasks[id].status = "completed"
        /\ tasks[id].completed_at # NilTime
        /\ lo <= DayOf(tasks[id].completed_at) /\ DayOf(tasks[id].completed_at) <= hi}

Dimensions(r) ==
    IF r.kind = "productivity"
    THEN {<<r.locals.priority_totals[k], r.locals.priority_completed[k]>> :
             k \in 1..Len(r.locals.priority_totals)}
         \cup {<<r.data.category_efficiency[k].total_tasks,
                 r.data.category_efficiency[k].completed_tasks>> :
                   k \in 1..Len(r.data.category_efficiency)}
    ELSE IF r.kind = "monthly"
    THEN {<<r.data.project_progress[k].total_tasks,
            r.data.project_progress[k].completed>> :
              k \in 1..Len(r.data.project_progress)}
    ELSE {}

\* C21: a report that is answered with no write request in flight when it
\* arrived and none arrived since has completed <= total in every dimension
\* (priority, category, project); the counts are separate reads, so a report
\* with a write between the two counts of a dimension can have
\* completed > total.
C21_CountsOfOneStoreState ==
    [][(req.kind # "idle" /\ req'.kind = "idle" /\ resp'.code = StatusOK
           /\ req.w0 = [arrived |-> writes', busy |-> {}]) =>
          \A d \in Dimensions(resp') : d[2] <= d[1]]_vars

\* a monthly report whose project alpha has more completed tasks than tasks:
\* the total was counted before the task was created, the completed tasks
\* after all were completed
C21_Witness ==
    /\ Answered("monthly") /\ resp.user = 1
    /\ \E k \in 1..Len(resp.data.project_progress) :
          /\ resp.data.project_progress[k].project_name = "alpha"
          /\ resp.data.project_progress[k].completed >
                 resp.data.project_progress[k].total_tasks

\* C22: whatever CreateTask and UpdateTask requests have run, with or without
\* a priority in the body, every stored task has one of the four priorities,
\* so the four counts of priority_distribution add up to the owner's tasks.
C22_PriorityAlwaysOneOfFour ==
    /\ \A id \in DOMAIN tasks :
          \E k \in 1..Len(Priorities) : tasks[id].priority = Priorities[k]
    /\ \A u \in Users :
          LET distribution == ProductivityBase(u).priority_distribution
          IN  distribution[1] + distribution[2] + distribution[3] + distribution[4]
                  = Cardinality(TasksOf(u))

\* C23: tasks_created of every entry of the weekly report is the number of the
\* owner's tasks created on one of the days the entry is labelled with, from
\* the start of its Monday to the end of its Sunday, at whatever time of day
\* the report is requested.
C23_WeeklyCountsLabelledDays ==
    Answered("weekly") =>
        \A k \in 1..Len(resp.data) :
            resp.data[k].tasks_created =
                Cardinality({id \in DOMAIN tasks :
                    /\ tasks[id].user_id = resp.user /\ ~tasks[id].deleted
                    /\ LabelStart(resp.data[k].week) <= DayOf(tasks[id].created_at)
                    /\ DayOf(tasks[id].created_at) <= LabelEnd(resp.data[k].week)})

\* C24: the write of an UpdateTask request leaves status and completed_at of
\* every task as they were last committed, so it never takes back a status
\* change that UpdateTaskStatus or BatchUpdateTaskStatus committed while the
\* request was in flight.
C24_UpdateTaskKeepsStatus ==
    [][\A c \in Conns :
          UpdateTask_Save(c) =>
              \A id \in DOMAIN tasks :
                  /\ tasks'[id].status = tasks[id].status
                  /\ tasks'[id].completed_at = tasks[id].completed_at]_vars

\* C25: however CreateTask and UpdateTask interleave with DeleteCategory and
\* DeleteProject, with or without force, no task that is not deleted refers
\* to a category or a project that is deleted.
C25_NoReferenceToDeleted ==
    \A id \in DOMAIN tasks :
        ~tasks[id].deleted =>
            /\ tasks[id].category_id # 0 => ~categories[tasks[id].category_id].deleted
            /\ tasks[id].project_id # 0 => ~projects[tasks[id].project_id].deleted

\* no two rows of the table that are not deleted have the same owner and name
UniqueNames(table) ==
    \A i, j \in DOMAIN table :
        (/\ i # j /\ ~table[i].deleted /\ ~table[j].deleted
         /\ table[i].user_id = table[j].user_id) => table[i].name # table[j].name

\* C26: however the requests that create and rename categories and projects
\* interleave, no owner has two categories, or two projects, of the same name
\* that are not deleted; a request that finds the name taken is answered with
\* a conflict and changes nothing.
C26_NamesUniquePerOwner ==
    [][/\ UniqueNames(categories') /\ UniqueNames(projects')
       /\ \A c \in Conns :
             (writers[c].kind = "idle" /\ writers'[c].code = StatusConflict
              /\ writes' = writes + 1) =>
                 UNCHANGED <<tasks, categories, projects>>]_vars

\* C27: completed_at of a task does not change while the task stays
\* completed: a request that marks a completed task as completed again leaves
\* the time of its first completion.
C27_CompletedAtKeptWhileCompleted ==
    [][\A id \in DOMAIN tasks :
          (tasks[id].status = "completed" /\ tasks'[id].status = "completed") =>
              tasks'[id].completed_at = tasks[id].completed_at]_vars

\* the category and the project a body names, when it names one, are rows of
\* user u, deleted or not
RefsOwned(u, body) ==
    /\ body.category_id # 0 =>
          /\ body.category_id \in DOMAIN categories
          /\ categories[body.category_id].user_id = u
    /\ body.project_id # 0 =>
          /\ body.project_id \in DOMAIN projects
          /\ projects[body.project_id].user_id = u

\* every task row, deleted or not, names rows of its own owner
OwnedRefs ==
    \A id \in DOMAIN tasks :
        RefsOwned(tasks[id].user_id,
                  [category_id |-> tasks[id].category_id,
                   project_id |-> tasks[id].project_id])

\* C28: after every step, the category_id and the project_id of every task,
\* when set, are ids of a category and a project of the owner of the task; and
\* a CreateTask or UpdateTask whose body names a category or a project that
\* does not exist or is another owner's ends at its checks with a 4xx status
\* (400, or 403 when the task of the route is not the caller's), the three
\* tables unchanged.
C28_RefsOfOwnOwner ==
    [][/\ OwnedRefs'
       /\ \A c \in Conns, u \in Users, b \in RefBodies :
             (CreateTask_Check(c, u, b) /\ ~RefsOwned(u, b)) =>
                 /\ writers'[c].kind = "idle"
                 /\ writers'[c].code = StatusBadRequest
                 /\ UNCHANGED <<tasks, categories, projects>>
       /\ \A c \in Conns, u \in Users, id \in DOMAIN tasks, b \in RefBodies :
             (UpdateTask_Read(c, u, id, b) /\ ~RefsOwned(u, b)) =>
                 /\ writers'[c].kind = "idle"
                 /\ writers'[c].code \in {StatusBadRequest, StatusForbidden}
                 /\ UNCHANGED <<tasks, categories, projects>>]_vars

\* a request was refused with 400 after UpdateTask moved task 1 of user 1 to
\* category 2, and task 1 still names rows of user 1
C28_Witness ==
    /\ \E c \in Conns : writers[c].code = StatusBadRequest
    /\ tasks[1].category_id = 2
    /\ OwnedRefs

\* the step answers the request on connection c with 403
Refused(c) == writers'[c].kind = "idle" /\ writers'[c].code = StatusForbidden

\* the step leaves every row of the table that is not of user u as it is
OthersKept(old, new, u) ==
    \A id \in DOMAIN old :
        old[id].user_id # u => (id \in DOMAIN new /\ new[id] = old[id])

\* C29: when every request is made as user 2, no step changes or deletes a
\* task, category or project of another user; PUT, PATCH status and DELETE of
\* a task, category or project of another user are answered 403; and the two
\* batch requests change of the listed ids exactly the live tasks of user 2
\* (to the status asked, or to deleted) and no other row.
C29_OthersRowsUntouched ==
    [][/\ OthersKept(tasks, tasks', 2)
       /\ OthersKept(categories, categories', 2)
       /\ OthersKept(projects, projects', 2)
       /\ \A c \in Conns, id \in DOMAIN tasks :
             tasks[id].user_id # 2 =>
                 /\ \A b \in OtherBodies : UpdateTask_Read(c, 2, id, b) => Refused(c)
                 /\ \A st \in Statuses :
                       UpdateTaskStatus_Read(c, 2, id, TaskStatusRequest(st)) => Refused(c)
                 /\ DeleteTask(c, 2, id) => Refused(c)
       /\ \A c \in Conns, id \in DOMAIN categories :
             categories[id].user_id # 2 =>
                 /\ \A b \in CategoryBodies : UpdateCategory_Read(c, 2, id, b) => Refused(c)
                 /\ \A force \in Forces : DeleteCategory_Count(c, 2, id, force) => Refused(c)
       /\ \A c \in Conns, id \in DOMAIN projects :
             projects[id].user_id # 2 =>
                 /\ \A b \in ProjectBodies : UpdateProject_Read(c, 2, id, b) => Refused(c)
                 /\ \A force \in Forces : DeleteProject_Count(c, 2, id, force) => Refused(c)
       /\ \A c \in Conns, ids \in SUBSET (DOMAIN tasks) :
             /\ \A st \in Statuses :
                   BatchUpdateTaskStatus(c, 2, ids, st) =>
                       \A k \in DOMAIN tasks :
                           IF k \in ids /\ tasks[k].user_id = 2 /\ ~tasks[k].deleted
                           THEN tasks'[k].status = st
                           ELSE tasks'[k] = tasks[k]
             /\ BatchDeleteTasks(c, 2, ids) =>
                       \A k \in DOMAIN tasks :
                           IF k \in ids /\ tasks[k].user_id = 2 /\ ~tasks[k].deleted
                           THEN tasks'[k].deleted
                           ELSE tasks'[k] = tasks[k]]_vars

\* a request of user 2 was answered 403 and a batch delete that listed every
\* task removed task 4 of user 2 and left tasks 1 and 3 of user 1
C29_Witness ==
    /\ \E c \in Conns : writers[c].code = StatusForbidden
    /\ tasks[4].deleted
    /\ tasks[1] = TaskRows[1] /\ tasks[3] = TaskRows[3]

\* the step neither removes a task row nor changes the deleted mark of one
NoTaskDeleted ==
    \A k \in DOMAIN tasks : k \in DOMAIN tasks' /\ tasks'[k].deleted = tasks[k].deleted

\* the live tasks of user u that name category id, project id
TasksOfCategory(T, u, id) ==
    {k \in DOMAIN T : ~T[k].deleted /\ T[k].user_id = u /\ T[k].category_id = id}
TasksOfProject(T, u, id) ==
    {k \in DOMAIN T : ~T[k].deleted /\ T[k].user_id = u /\ T[k].project_id = id}

\* the step changes of the table the deleted mark of row id and nothing else
OnlyRemoved(old, new, id) ==
    /\ DOMAIN new = DOMAIN old
    /\ new[id].deleted
    /\ \A k \in DOMAIN old : k # id => new[k] = old[k]

\* C30: no step of DeleteCategory or DeleteProject deletes a task; a request
\* of user 1 without force=true for a category (project) of theirs that a live
\* task of theirs names is answered 409 with the three tables unchanged; and
\* when the request is answered 200, the category (project) is the only row
\* removed and no live task of user 1 names it any more.
C30_DeleteKeepsTasks ==
    [][\A c \in Conns :
        /\ (\/ DeleteCategory_Clear(c) \/ DeleteCategory_Delete(c)
            \/ DeleteProject_Clear(c) \/ DeleteProject_Delete(c)) => NoTaskDeleted
        /\ \A id \in DOMAIN categories, force \in Forces :
              DeleteCategory_Count(c, 1, id, force) =>
                  /\ NoTaskDeleted
                  /\ (/\ force # "true"
                      /\ categories[id].user_id = 1 /\ ~categories[id].deleted
                      /\ TasksOfCategory(tasks, 1, id) # {}) =>
                          /\ writers'[c].kind = "idle"
                          /\ writers'[c].code = StatusConflict
                          /\ UNCHANGED <<tasks, categories, projects>>
        /\ \A id \in DOMAIN projects, force \in Forces :
              DeleteProject_Count(c, 1, id, force) =>
                  /\ NoTaskDeleted
                  /\ (/\ force # "true"
                      /\ projects[id].user_id = 1 /\ ~projects[id].deleted
                      /\ TasksOfProject(tasks, 1, id) # {}) =>
                          /\ writers'[c].kind = "idle"
                          /\ writers'[c].code = StatusConflict
                          /\ UNCHANGED <<tasks, categories, projects>>
        /\ (DeleteCategory_Delete(c) /\ writers'[c].code = StatusOK) =>
              /\ OnlyRemoved(categories, categories', writers[c].id)
              /\ UNCHANGED projects
              /\ TasksOfCategory(tasks', 1, writers[c].id) = {}
        /\ (DeleteProject_Delete(c) /\ writers'[c].code = StatusOK) =>
              /\ OnlyRemoved(projects, projects', writers[c].id)
              /\ UNCHANGED categories
              /\ TasksOfProject(tasks', 1, writers[c].id) = {}]_vars
====
